---- MODULE Spec2Model ----
(***************************************************************************)
(* Model of the ballot-mark validator (src/js/*.js, src/unnamed/part_00x). *)
(*                                                                         *)
(* Numbers.  The JavaScript works on IEEE doubles; the model works on      *)
(* integers.  Coordinates and lengths are whole logical pixels, angles are *)
(* whole degrees, cos/sin are scaled by 1000, ratios are in percent or     *)
(* per mille.  Every real-valued result is rounded to the nearest integer  *)
(* (RDiv, Sqrt, atan2).  A value the JavaScript computes as NaN (0/0) is   *)
(* the sentinel NaN, and every comparison with it is false, as in IEEE.    *)
(***************************************************************************)
EXTENDS Integers, Sequences, FiniteSets, TLC

VARIABLES
    strokes,           \* the caller's stroke list (argument of validateMark)
    options,           \* the options argument: [debug |-> BOOLEAN]
    pc,                \* position inside validateMark
    totalInkLength,    \* validation.js:33
    processedStrokes,  \* validation.js:34
    segments,          \* validation.js:95
    intersections,     \* validation.js:96
    clusters,          \* validation.js:112 (with isCrossValid, strokesAtCluster)
    scaleReference,    \* validation.js:152
    crossCandidates,   \* validation.js:247
    bestCandidate,     \* validation.js:289
    branchCount,       \* validation.js:296
    explainedRatio,    \* validation.js:378 (per mille)
    result,            \* the returned record
    lastResult,        \* the record returned by the previous call on the same strokes
    args,              \* the arguments of a direct call of one of the library functions
    ret,               \* the value that call returned
    ballotState,       \* window.ballotState (input-handler.js:10-16)
    browser,           \* the page's timers, the calls its timer callback made, an uncaught error
    runner             \* the TestRunner instance, its buttons and its runAll calls in progress

vars == <<strokes, options, pc, totalInkLength, processedStrokes, segments,
          intersections, clusters, scaleReference, crossCandidates,
          bestCandidate, branchCount, explainedRatio, result, lastResult, args, ret,
          ballotState, browser, runner>>

----------------------------------------------------------------------------
(* BallotConfig (src/js/arm-extension.js:118-169) *)

VOTE_BOX == [x |-> 90, y |-> 85, width |-> 320, height |-> 220]
BOX_TOLERANCE_PX == 3
RESAMPLE_STEP_PX == 3
SIMPLIFY_EPSILON_PX == 3
MIN_TOTAL_INK_LENGTH_PX == 30
MAX_POINTS_TOTAL == 1200
ENDPOINT_EPS_PX == 6
MIN_CROSSING_ANGLE_DEG == 15
MIN_ARM_EXTENSION_PX == 18
ARM_CORRIDOR_ANGLE_TOL_DEG == 25
ARM_CORRIDOR_DIST_PX == 12
TOPOLOGY_ANALYSIS_RADIUS_PX == 60
BRANCH_ANGLE_CLUSTER_TOL_DEG == 30
CROSS_CLUSTER_EPS_PX == 26
\* the three separation ratios and the ink ratios, in percent
RETRACE_TOLERANCE_RATIO == 12
INTENTIONAL_MIN_RATIO == 20
MULTI_MARK_MIN_RATIO == 100
MIN_EXPLAINED_INK_RATIO == 70
MIN_EXPLAINED_INK_RATIO_SINGLE == 50
MIN_EXPLAINED_INK_RATIO_DOUBLE == 62
\* validation.js:336 compares the arm balance with the literal 0.70
ARM_BALANCE_LITERAL == 70
\* validation.js:152: let scaleReference = 60
SCALE_REFERENCE_DEFAULT == 60

----------------------------------------------------------------------------
(* Integer arithmetic standing for the JavaScript Math functions *)

\* a / b rounded to the nearest integer (b > 0)
RDiv(a, b) == (2 * a + b) \div (2 * b)

Abs(a) == IF a < 0 THEN -a ELSE a
Min2(a, b) == IF a <= b THEN a ELSE b
Max2(a, b) == IF a >= b THEN a ELSE b

\* JavaScript's % : the remainder takes the sign of the dividend
JsRem(a, b) == IF a >= 0 THEN a % b ELSE -((-a) % b)

\* f[lo] + ... + f[hi], by halves
RECURSIVE SumRange(_, _, _)
SumRange(f, lo, hi) ==
    IF lo > hi THEN 0
    ELSE IF lo = hi THEN f[lo]
    ELSE LET mid == (lo + hi) \div 2
         IN  SumRange(f, lo, mid) + SumRange(f, mid + 1, hi)

\* f[lo] \o ... \o f[hi], by halves: what a loop that pushes onto an array builds
RECURSIVE ConcatRange(_, _, _)
ConcatRange(f, lo, hi) ==
    IF lo > hi THEN <<>>
    ELSE IF lo = hi THEN f[lo]
    ELSE LET mid == (lo + hi) \div 2
         IN  ConcatRange(f, lo, mid) \o ConcatRange(f, mid + 1, hi)

SetMax(S) == IF S = {} THEN 0 ELSE CHOOSE m \in S : \A n \in S : n <= m

RECURSIVE SqrtSearch(_, _, _)
SqrtSearch(n, lo, hi) ==
    IF lo >= hi THEN lo
    ELSE LET mid == (lo + hi + 1) \div 2
         IN  IF mid * mid <= n THEN SqrtSearch(n, mid, hi)
                               ELSE SqrtSearch(n, lo, mid - 1)

\* Math.sqrt, to the nearest integer (arguments stay below 2^22)
Sqrt(n) ==
    LET r == SqrtSearch(n, 0, 2048)
    IN  IF n - r * r > r THEN r + 1 ELSE r

\* 10000 * tan((d - 1/2) degrees), d = 1..90
TanHalf ==
    <<87, 262, 437, 612, 787, 963, 1139, 1317, 1495, 1673, 1853, 2035, 2217,
      2401, 2586, 2773, 2962, 3153, 3346, 3541, 3739, 3939, 4142, 4348, 4557,
      4770, 4986, 5206, 5430, 5658, 5890, 6128, 6371, 6619, 6873, 7133, 7400,
      7673, 7954, 8243, 8541, 8847, 9163, 9490, 9827, 10176, 10538, 10913,
      11303, 11708, 12131, 12572, 13032, 13514, 14019, 14550, 15108, 15697,
      16319, 16977, 17675, 18418, 19210, 20057, 20965, 21943, 22998, 24142,
      25386, 26746, 28239, 29887, 31716, 33759, 36059, 38667, 41653, 45107,
      49152, 53955, 59758, 66912, 75958, 87769, 103854, 127062, 163499,
      229038, 381885, 1145887>>

\* number of d in 1..90 with tan(d - 1/2) <= y / x, for x > 0, y >= 0
RECURSIVE AtanSearch(_, _, _, _)
AtanSearch(y, x, lo, hi) ==
    IF lo >= hi THEN lo
    ELSE LET mid == (lo + hi + 1) \div 2
         IN  IF y * 10000 >= TanHalf[mid] * x THEN AtanSearch(y, x, mid, hi)
                                             ELSE AtanSearch(y, x, lo, mid - 1)

\* Math.atan2(y, x) * 180 / Math.PI, to the nearest degree, in -180..180
Atan2Deg(y, x) ==
    LET q == IF x = 0 THEN (IF y = 0 THEN 0 ELSE 90)
             ELSE AtanSearch(Abs(y), Abs(x), 0, 90)
    IN  IF x >= 0 THEN (IF y >= 0 THEN q ELSE -q)
        ELSE (IF y >= 0 THEN 180 - q ELSE q - 180)

\* 1000 * sin(d degrees), d = 0..90 (index d + 1)
SinTab ==
    <<0, 17, 35, 52, 70, 87, 105, 122, 139, 156, 174, 191, 208, 225, 242, 259,
      276, 292, 309, 326, 342, 358, 375, 391, 407, 423, 438, 454, 469, 485,
      500, 515, 530, 545, 559, 574, 588, 602, 616, 629, 643, 656, 669, 682,
      695, 707, 719, 731, 743, 755, 766, 777, 788, 799, 809, 819, 829, 839,
      848, 857, 866, 875, 883, 891, 899, 906, 914, 921, 927, 934, 940, 946,
      951, 956, 961, 966, 970, 974, 978, 982, 985, 988, 990, 993, 995, 996,
      998, 999, 999, 1000, 1000>>

\* 1000 * Math.sin(deg * Math.PI / 180), deg an integer
Sin1000(deg) ==
    LET a == deg % 360
    IN  IF a <= 90 THEN SinTab[a + 1]
        ELSE IF a <= 180 THEN SinTab[180 - a + 1]
        ELSE IF a <= 270 THEN -SinTab[a - 180 + 1]
        ELSE -SinTab[360 - a + 1]

\* 1000 * Math.cos(deg * Math.PI / 180)
Cos1000(deg) == Sin1000(deg + 90)

\* the result of 0 / 0
NaN == -1000000

----------------------------------------------------------------------------
(* BallotGeometry (src/unnamed/part_001) *)

Pt(px, py) == [x |-> px, y |-> py]

dist(p1, p2) ==
    LET dx == p1.x - p2.x
        dy == p1.y - p2.y
    IN  Sqrt(dx * dx + dy * dy)

strokeLength(stroke) ==
    SumRange([i \in 2..Len(stroke) |-> dist(stroke[i - 1], stroke[i])], 2, Len(stroke))

\* every comparison with NaN is false
pointInRect(pt, rect, tolerance) ==
    /\ pt.x # NaN
    /\ pt.y # NaN
    /\ pt.x >= rect.x - tolerance
    /\ pt.x <= rect.x + rect.width + tolerance
    /\ pt.y >= rect.y - tolerance
    /\ pt.y <= rect.y + rect.height + tolerance

\* twice the midpoint (kept doubled so that no half pixel is lost)
segmentMidpoint2(seg) == Pt(seg.p1.x + seg.p2.x, seg.p1.y + seg.p2.y)

\* 2000 * |dx * vy - dy * vx| for a point given doubled
pointToLineDistance2000(point2, linePoint, lineAngleDeg) ==
    LET dx2 == point2.x - 2 * linePoint.x
        dy2 == point2.y - 2 * linePoint.y
    IN  Abs(dx2 * Sin1000(lineAngleDeg) - dy2 * Cos1000(lineAngleDeg))

----------------------------------------------------------------------------
(* BallotPreprocessing (src/js/preprocessing.js) *)

\* the while loop of lines 23-31 on the segment prev -> cur: it runs
\* accumulated \div step times, the k-th time with accumulated - (k - 1) * step
resampleEmit(prev, cur, d, accumulated, step) ==
    LET n == IF accumulated >= step THEN accumulated \div step ELSE 0
        t(k) == accumulated - (k - 1) * step - step
    IN  [pts |-> [k \in 1..n |->
                    Pt(cur.x - RDiv(t(k) * (cur.x - prev.x), d),
                       cur.y - RDiv(t(k) * (cur.y - prev.y), d))],
         acc |-> accumulated - n * step]

\* the for loop of lines 19-32, from index i on
RECURSIVE resampleFrom(_, _, _, _)
resampleFrom(stroke, i, accumulated, step) ==
    IF i > Len(stroke) THEN <<>>
    ELSE LET d == dist(stroke[i - 1], stroke[i])
             e == resampleEmit(stroke[i - 1], stroke[i], d, accumulated + d, step)
         IN  e.pts \o resampleFrom(stroke, i + 1, e.acc, step)

resampleStroke(stroke, step) ==
    IF Len(stroke) < 2 THEN stroke
    ELSE LET resampled == <<stroke[1]>> \o resampleFrom(stroke, 2, 0, step)
             last      == stroke[Len(stroke)]
         IN  \* dist(...) > 0.5
             IF 2 * dist(resampled[Len(resampled)], last) > 1
             THEN Append(resampled, last)
             ELSE resampled

pointToSegmentDist(pt, p1, p2) ==
    LET dx    == p2.x - p1.x
        dy    == p2.y - p1.y
        lenSq == dx * dx + dy * dy
        dot   == (pt.x - p1.x) * dx + (pt.y - p1.y) * dy
        \* t = max(0, min(1, dot / lenSq)); proj = p1 + t * (dx, dy)
        proj  == IF dot <= 0 THEN p1
                 ELSE IF dot >= lenSq THEN p2
                 ELSE Pt(p1.x + RDiv(dot * dx, lenSq), p1.y + RDiv(dot * dy, lenSq))
    IN  IF lenSq = 0 THEN dist(pt, p1) ELSE dist(pt, proj)

\* the loop of lines 55-61: the largest distance and the first index (1-based)
\* that attains it; index 1 (the source's 0) when no distance is positive
rdpMax(points) ==
    LET n == Len(points)
        d == [i \in 2..(n - 1) |-> pointToSegmentDist(points[i], points[1], points[n])]
        maxDist == SetMax({d[i] : i \in 2..(n - 1)})
    IN  [maxDist  |-> maxDist,
         maxIndex |-> IF maxDist = 0 THEN 1
                      ELSE CHOOSE i \in 2..(n - 1) :
                              d[i] = maxDist /\ \A j \in 2..(i - 1) : d[j] < maxDist]

\* a simplification that drops one point within epsilon for each call
RECURSIVE simplifyOnePoint(_, _)
simplifyOnePoint(points, epsilon) ==
    IF Len(points) < 3 THEN points
    ELSE LET m == rdpMax(points)
         IN  IF m.maxDist > epsilon
             THEN LET left  == simplifyOnePoint(SubSeq(points, 1, m.maxIndex), epsilon)
                      right == simplifyOnePoint(SubSeq(points, m.maxIndex, Len(points)), epsilon)
                  IN  SubSeq(left, 1, Len(left) - 1) \o right
             ELSE <<points[1]>> \o SubSeq(points, 3, Len(points))

RECURSIVE simplifyRDP(_, _)
simplifyRDP(points, epsilon) ==
    IF Len(points) < 3 THEN points
    ELSE LET m == rdpMax(points)
         IN  IF m.maxDist > epsilon
             THEN LET left  == simplifyRDP(SubSeq(points, 1, m.maxIndex), epsilon)
                      right == simplifyRDP(SubSeq(points, m.maxIndex, Len(points)), epsilon)
                  IN  SubSeq(left, 1, Len(left) - 1) \o right
             ELSE <<points[1], points[Len(points)]>>

----------------------------------------------------------------------------
(* BallotIntersection (src/js/intersection.js) *)

\* the segments of one stroke; si and the segment index are 0-based as in the source
strokeSegments(stroke, si) ==
    [i \in 1..(Len(stroke) - 1) |->
        [p1 |-> stroke[i], p2 |-> stroke[i + 1],
         strokeIndex |-> si, segmentIndex |-> i - 1,
         length |-> dist(stroke[i], stroke[i + 1]),
         strokeStart |-> stroke[1], strokeEnd |-> stroke[Len(stroke)]]]

buildSegments(strokeList) ==
    ConcatRange([si \in 1..Len(strokeList) |-> strokeSegments(strokeList[si], si - 1)],
                1, Len(strokeList))

\* a / b to the nearest integer, b of either sign
RDivS(a, b) == IF b < 0 THEN RDiv(-a, -b) ELSE RDiv(a, b)

\* lines 66-70: the crossing angle of two directions given in degrees
crossAngleOf(angle1, angle2) ==
    LET crossAngle == Abs(angle1 - angle2)
    IN  IF crossAngle > 90 THEN 180 - crossAngle ELSE crossAngle

NoIntersection == [ok |-> FALSE]

findSegmentIntersection(seg1, seg2) ==
    LET dx1 == seg1.p2.x - seg1.p1.x
        dy1 == seg1.p2.y - seg1.p1.y
        dx2 == seg2.p2.x - seg2.p1.x
        dy2 == seg2.p2.y - seg2.p1.y
        det == dx1 * dy2 - dy1 * dx2
        \* t = tn / det, u = un / det
        tn  == (seg2.p1.x - seg1.p1.x) * dy2 - (seg2.p1.y - seg1.p1.y) * dx2
        un  == (seg2.p1.x - seg1.p1.x) * dy1 - (seg2.p1.y - seg1.p1.y) * dx1
        outside(n) == IF det > 0 THEN n < 0 \/ n > det ELSE n > 0 \/ n < det
        ip  == Pt(seg1.p1.x + RDivS(tn * dx1, det), seg1.p1.y + RDivS(tn * dy1, det))
        nearStrokeEndpoint ==
            \/ dist(ip, seg1.strokeStart) < ENDPOINT_EPS_PX
            \/ dist(ip, seg1.strokeEnd) < ENDPOINT_EPS_PX
            \/ dist(ip, seg2.strokeStart) < ENDPOINT_EPS_PX
            \/ dist(ip, seg2.strokeEnd) < ENDPOINT_EPS_PX
        crossAngle == crossAngleOf(Atan2Deg(dy1, dx1), Atan2Deg(dy2, dx2))
    IN  IF det = 0 THEN NoIntersection
        ELSE IF outside(tn) \/ outside(un) THEN NoIntersection
        ELSE IF nearStrokeEndpoint THEN NoIntersection
        ELSE IF crossAngle < MIN_CROSSING_ANGLE_DEG THEN NoIntersection
        ELSE [ok |-> TRUE, x |-> ip.x, y |-> ip.y, angle |-> crossAngle,
              seg1 |-> seg1, seg2 |-> seg2]

\* a pair test that lets neighbouring segments of one stroke through
pairIntersectionOfAny(segs, i, j) ==
    LET inter == findSegmentIntersection(segs[i], segs[j])
    IN  IF inter.ok /\ pointInRect(inter, VOTE_BOX, 0) THEN <<inter>> ELSE <<>>

\* lines 98-108: the pair (i, j) contributes its intersection or nothing
pairIntersection(segs, i, j) ==
    LET seg1 == segs[i]
        seg2 == segs[j]
    IN  IF \/ seg1.strokeIndex # seg2.strokeIndex
           \/ Abs(seg1.segmentIndex - seg2.segmentIndex) > 1
        THEN LET inter == findSegmentIntersection(seg1, seg2)
             IN  IF inter.ok /\ pointInRect(inter, VOTE_BOX, 0)
                 THEN <<inter>> ELSE <<>>
        ELSE <<>>

findAllIntersections(segs) ==
    LET n == Len(segs)
        row(i) == ConcatRange([j \in (i + 1)..n |-> pairIntersection(segs, i, j)], i + 1, n)
    IN  ConcatRange([i \in 1..n |-> row(i)], 1, n)

----------------------------------------------------------------------------
(* BallotArmExtension (src/js/arm-extension.js) *)

\* ((deg % m) + m) % m
NormDeg(deg, m) == (JsRem(deg, m) + m) % m

\* the (stroke, segment) positions of a stroke list
segPositions(allStrokes) ==
    UNION {{<<si, i>> : i \in 1..(Len(allStrokes[si]) - 1)} : si \in 1..Len(allStrokes)}

\* lines 70-106, for one segment p1 -> p2: its contribution to maxDist
corridorReach(P, direction, p1, p2) ==
    LET segDir == NormDeg(Atan2Deg(p2.y - p1.y, p2.x - p1.x), 360)
        back   == (direction + 180) % 360
        angleDiff1 == Min2(Abs(segDir - direction), 360 - Abs(segDir - direction))
        angleDiff2 == Min2(Abs(segDir - back), 360 - Abs(segDir - back))
        angleDiff  == Min2(angleDiff1, angleDiff2)
        mid2   == segmentMidpoint2([p1 |-> p1, p2 |-> p2])
        dot1   == (p1.x - P.x) * Cos1000(direction) + (p1.y - P.y) * Sin1000(direction)
        dot2   == (p2.x - P.x) * Cos1000(direction) + (p2.y - P.y) * Sin1000(direction)
    IN  IF angleDiff > ARM_CORRIDOR_ANGLE_TOL_DEG THEN 0
        ELSE IF pointToLineDistance2000(mid2, P, direction) > 2000 * ARM_CORRIDOR_DIST_PX THEN 0
        ELSE IF dot1 > 0 \/ dot2 > 0
             THEN Max2(IF dot1 > 0 THEN dist(P, p1) ELSE 0,
                       IF dot2 > 0 THEN dist(P, p2) ELSE 0)
             ELSE 0

findInkInCorridor(P, direction, allStrokes) ==
    SetMax({corridorReach(P, direction, allStrokes[q[1]][q[2]], allStrokes[q[1]][q[2] + 1]) :
              q \in segPositions(allStrokes)})

\* lines 17-18: a segment's direction folded into [0, 180)
segAngle(seg) == NormDeg(Atan2Deg(seg.p2.y - seg.p1.y, seg.p2.x - seg.p1.x), 180)

\* lines 21-24
armAnglesOf(angle1, angle2) ==
    <<angle1, (angle1 + 180) % 360, angle2, (angle2 + 180) % 360>>

\* line 39: Math.min(...extensions)
minOf4(extensions) ==
    Min2(Min2(extensions[1], extensions[2]), Min2(extensions[3], extensions[4]))

\* lines 36-50: the returned record
armReport(extensions, armAngles) ==
    [valid |-> minOf4(extensions) >= MIN_ARM_EXTENSION_PX,
     extensions |-> extensions,
     minExtension |-> minOf4(extensions),
     armAngles |-> armAngles]

\* lines 26-34: the farthest ink along each of the four directions
measureArms(P, armAngles, allStrokes) ==
    armReport([k \in 1..4 |-> findInkInCorridor(P, armAngles[k], allStrokes)], armAngles)

measure4ArmExtension(P, seg1, seg2, allStrokes) ==
    measureArms(P, armAnglesOf(segAngle(seg1), segAngle(seg2)), allStrokes)

----------------------------------------------------------------------------
(* BallotTopology (src/js/topology.js) *)

\* Array.prototype.sort with a numeric comparator (stable): keys ascending
sortByKey(seq, keys) ==
    LET rank(i) == 1 + Cardinality({j \in 1..Len(seq) :
                        keys[j] < keys[i] \/ (keys[j] = keys[i] /\ j < i)})
    IN  [k \in 1..Len(seq) |-> seq[CHOOSE i \in 1..Len(seq) : rank(i) = k]]

\* lines 57-65: the sweep step, item against the running mode
angleStep(currentMode, item, tolerance) ==
    LET diff == Min2(Abs(item.angle - currentMode.angle),
                     180 - Abs(item.angle - currentMode.angle))
        totalWeight == currentMode.weight + item.weight
    IN  IF diff <= tolerance
        THEN [merged |-> TRUE,
              mode |-> [angle |-> RDiv(currentMode.angle * currentMode.weight
                                       + item.angle * item.weight, totalWeight),
                        weight |-> totalWeight]]
        ELSE [merged |-> FALSE, mode |-> [angle |-> item.angle, weight |-> item.weight]]

\* lines 51-67: the linear sweep from item i on
RECURSIVE angleSweep(_, _, _, _)
angleSweep(sorted, i, currentMode, tolerance) ==
    IF i > Len(sorted) THEN <<currentMode>>
    ELSE LET st == angleStep(currentMode, sorted[i], tolerance)
         IN  IF st.merged THEN angleSweep(sorted, i + 1, st.mode, tolerance)
             ELSE <<currentMode>> \o angleSweep(sorted, i + 1, st.mode, tolerance)

\* lines 69-79: the wrap-around merge of the first and the last mode
angleWrap(modes, tolerance) ==
    IF Len(modes) > 1
    THEN LET first == modes[1]
             last  == modes[Len(modes)]
             wrapDiff == Abs(first.angle - (last.angle - 180))
             totalWeight == first.weight + last.weight
         IN  IF wrapDiff <= tolerance
             THEN <<[angle |-> RDiv(first.angle * first.weight
                                    + (last.angle - 180) * last.weight, totalWeight),
                     weight |-> totalWeight]>>
                  \o SubSeq(modes, 2, Len(modes) - 1)
             ELSE modes
    ELSE modes

clusterAngles(angleData, tolerance) ==
    IF Len(angleData) = 0 THEN <<>>
    ELSE LET sorted == sortByKey(angleData, [i \in 1..Len(angleData) |-> angleData[i].angle])
             modes  == angleWrap(angleSweep(sorted, 2, sorted[1], tolerance), tolerance)
         IN  sortByKey(modes, [i \in 1..Len(modes) |-> -modes[i].weight])

\* lines 16-29: the segments whose midpoint is within the analysis radius of P
nearbySegments(P, allStrokes) ==
    LET near(p1, p2) ==
            LET mid2 == segmentMidpoint2([p1 |-> p1, p2 |-> p2])
            IN  dist(mid2, Pt(2 * P.x, 2 * P.y)) <= 2 * TOPOLOGY_ANALYSIS_RADIUS_PX
        item(p1, p2) ==
            [angle  |-> NormDeg(Atan2Deg(p2.y - p1.y, p2.x - p1.x), 180),
             weight |-> dist(p1, p2)]
        ofStroke(stroke) ==
            ConcatRange([i \in 1..(Len(stroke) - 1) |->
                           IF near(stroke[i], stroke[i + 1])
                           THEN <<item(stroke[i], stroke[i + 1])>> ELSE <<>>],
                        1, Len(stroke) - 1)
    IN  ConcatRange([si \in 1..Len(allStrokes) |-> ofStroke(allStrokes[si])],
                    1, Len(allStrokes))

countGlobalBranches(P, allStrokes) ==
    LET nearby == nearbySegments(P, allStrokes)
    IN  IF Len(nearby) = 0 THEN 0
        ELSE Len(clusterAngles(nearby, BRANCH_ANGLE_CLUSTER_TOL_DEG))

\* lines 106-123: the greedy expansion of one cluster over j..Len(inters)
RECURSIVE expandCluster(_, _, _, _, _)
expandCluster(inters, j, members, visited, epsilon) ==
    IF j > Len(inters) THEN members
    ELSE IF j \in visited THEN expandCluster(inters, j + 1, members, visited, epsilon)
    ELSE LET isNear == \E k \in 1..Len(members) :
                          dist(inters[members[k]], inters[j]) <= epsilon
         IN  IF isNear
             THEN expandCluster(inters, j + 1, Append(members, j), visited, epsilon)
             ELSE expandCluster(inters, j + 1, members, visited, epsilon)

\* lines 99-137: the cluster record built from its member positions (1-based)
makeCluster(inters, members) ==
    [points   |-> [k \in 1..Len(members) |-> inters[members[k]]],
     indices  |-> [k \in 1..Len(members) |-> members[k] - 1],
     centroid |-> Pt(RDiv(SumRange([k \in 1..Len(members) |-> inters[members[k]].x],
                                 1, Len(members)), Len(members)),
                     RDiv(SumRange([k \in 1..Len(members) |-> inters[members[k]].y],
                                 1, Len(members)), Len(members))),
     count    |-> Len(members)]

\* a clustering that marks only the seed of a cluster as visited
RECURSIVE clusterFromSeedOnly(_, _, _, _)
clusterFromSeedOnly(inters, i, visited, epsilon) ==
    IF i > Len(inters) THEN <<>>
    ELSE IF i \in visited THEN clusterFromSeedOnly(inters, i + 1, visited, epsilon)
    ELSE LET members == expandCluster(inters, i + 1, <<i>>, visited \cup {i}, epsilon)
         IN  <<makeCluster(inters, members)>>
             \o clusterFromSeedOnly(inters, i + 1, visited \cup {i}, epsilon)

RECURSIVE clusterFrom(_, _, _, _)
clusterFrom(inters, i, visited, epsilon) ==
    IF i > Len(inters) THEN <<>>
    ELSE IF i \in visited THEN clusterFrom(inters, i + 1, visited, epsilon)
    ELSE LET members == expandCluster(inters, i + 1, <<i>>, visited \cup {i}, epsilon)
         IN  <<makeCluster(inters, members)>>
             \o clusterFrom(inters, i + 1,
                            visited \cup {members[k] : k \in 1..Len(members)}, epsilon)

clusterIntersections(inters, epsilon) ==
    IF Len(inters) = 0 THEN <<>> ELSE clusterFrom(inters, 1, {}, epsilon)

----------------------------------------------------------------------------
(* BallotExplainedInk (src/js/explained-ink.js) *)

\* lines 36-52: is the segment explained by one of the two axes through P
segmentExplained(seg, P, dirA, dirB) ==
    LET mid2   == segmentMidpoint2(seg)
        segDir == NormDeg(Atan2Deg(seg.p2.y - seg.p1.y, seg.p2.x - seg.p1.x), 180)
        angleDiffA == Min2(Abs(segDir - dirA), 180 - Abs(segDir - dirA))
        angleDiffB == Min2(Abs(segDir - dirB), 180 - Abs(segDir - dirB))
        explainedByA == /\ angleDiffA <= ARM_CORRIDOR_ANGLE_TOL_DEG
                        /\ pointToLineDistance2000(mid2, P, dirA) <= 2000 * ARM_CORRIDOR_DIST_PX
        explainedByB == /\ angleDiffB <= ARM_CORRIDOR_ANGLE_TOL_DEG
                        /\ pointToLineDistance2000(mid2, P, dirB) <= 2000 * ARM_CORRIDOR_DIST_PX
    IN  explainedByA \/ explainedByB

\* a ratio that adds a segment's length once for each axis that explains it
calculateExplainedInkRatioPerAxis(candidate, strokeList, segs) ==
    LET P    == candidate.point
        dirA == candidate.armAngles[1] % 180
        dirB == candidate.armAngles[3] % 180
        totalLength == SumRange([k \in 1..Len(segs) |-> segs[k].length], 1, Len(segs))
        explainedLength ==
            SumRange([k \in 1..Len(segs) |->
                      (IF segmentExplained(segs[k], P, dirA, dirA) THEN segs[k].length ELSE 0)
                      + (IF segmentExplained(segs[k], P, dirB, dirB) THEN segs[k].length ELSE 0)],
                     1, Len(segs))
    IN  IF totalLength > 0 THEN (explainedLength * 1000) \div totalLength ELSE 0

\* the ratio in per mille (rounded down)
calculateExplainedInkRatio(candidate, strokeList, segs) ==
    LET P    == candidate.point
        dirA == candidate.armAngles[1] % 180
        dirB == candidate.armAngles[3] % 180
        totalLength == SumRange([k \in 1..Len(segs) |-> segs[k].length], 1, Len(segs))
        explainedLength ==
            SumRange([k \in 1..Len(segs) |->
                      IF segmentExplained(segs[k], P, dirA, dirB) THEN segs[k].length ELSE 0],
                     1, Len(segs))
    IN  IF totalLength > 0 THEN (explainedLength * 1000) \div totalLength ELSE 0

----------------------------------------------------------------------------
(* BallotValidation.validateMark (src/js/validation.js), step by step *)

Null == [null |-> TRUE]

\* an invalid result that does not carry its category
InvalidWithoutType(type, reason, debug) ==
    [valid |-> "false", label |-> "spoiled", invalid_type |-> "null",
     reason |-> reason, debug |-> debug]

\* the invalid-result record; the label 'บัตรเสีย' is written "spoiled"
Invalid(type, reason, debug) ==
    [valid |-> "false", label |-> "spoiled", invalid_type |-> type,
     reason |-> reason, debug |-> debug]

\* the empty stroke list reported as a blank ballot
WaitingAsBlank ==
    [valid |-> "false", label |-> "spoiled", invalid_type |-> "blank",
     reason |-> "no_mark", debug |-> [empty |-> TRUE]]

\* lines 23-29; the label 'รอการทำเครื่องหมาย' is written "waiting"
WaitingResult ==
    [valid |-> "null", label |-> "waiting", invalid_type |-> "null",
     reason |-> "", debug |-> [empty |-> TRUE]]

\* lines 36-41: the preprocessing loop
preprocess(strokeList) ==
    [k \in 1..Len(strokeList) |->
        simplifyRDP(resampleStroke(strokeList[k], RESAMPLE_STEP_PX), SIMPLIFY_EPSILON_PX)]

inkLength(strokeList) ==
    SumRange([k \in 1..Len(strokeList) |-> strokeLength(strokeList[k])], 1, Len(strokeList))

\* line 55
totalPoints(processed) ==
    SumRange([k \in 1..Len(processed) |-> Len(processed[k])], 1, Len(processed))

\* lines 75-79: the j-th of steps sub-points of p1 -> p2; j / steps is 0 / 0 when steps = 0
samplePoint(p1, p2, j, steps) ==
    IF steps = 0 THEN Pt(NaN, NaN)
    ELSE Pt(p1.x + RDiv(j * (p2.x - p1.x), steps), p1.y + RDiv(j * (p2.y - p1.y), steps))

\* lines 69-90 for one segment: some sub-point fails pointInRect
segmentLeavesBox(p1, p2) ==
    LET d     == dist(p1, p2)
        steps == (d + RESAMPLE_STEP_PX - 1) \div RESAMPLE_STEP_PX
    IN  \E j \in 0..steps :
            ~pointInRect(samplePoint(p1, p2, j, steps), VOTE_BOX, BOX_TOLERANCE_PX)

\* the box check on the two ends of every stroke only
inkEndsLeaveBox(processed) ==
    \E k \in 1..Len(processed) :
        /\ Len(processed[k]) >= 2
        /\ \/ ~pointInRect(processed[k][1], VOTE_BOX, BOX_TOLERANCE_PX)
           \/ ~pointInRect(processed[k][Len(processed[k])], VOTE_BOX, BOX_TOLERANCE_PX)

\* lines 67-92
inkLeavesBox(processed) ==
    \E q \in segPositions(processed) :
        segmentLeavesBox(processed[q[1]][q[2]], processed[q[1]][q[2] + 1])

\* the call of lines 120-125, 160-165 and 250-255
armsAt(inter, processed) ==
    measure4ArmExtension(Pt(inter.x, inter.y), inter.seg1, inter.seg2, processed)

\* lines 116-146: isCrossValid and strokesAtCluster of one cluster
analyzeCluster(cluster, processed) ==
    [points   |-> cluster.points,
     indices  |-> cluster.indices,
     centroid |-> cluster.centroid,
     count    |-> cluster.count,
     isCrossValid |-> \E k \in 1..Len(cluster.points) :
                          armsAt(cluster.points[k], processed).valid,
     strokesAtCluster |->
        Cardinality({cluster.points[k].seg1.strokeIndex : k \in 1..Len(cluster.points)}
                    \cup {cluster.points[k].seg2.strokeIndex : k \in 1..Len(cluster.points)})]

\* line 149
validClustersOf(cls) ==
    LET isValid(c) == c.isCrossValid
    IN  SelectSeq(cls, isValid)

\* lines 158-174: the average arm length of every valid cross of the valid clusters
avgArmLength(armResult) ==
    IF armResult.valid
    THEN <<RDiv(armResult.extensions[1] + armResult.extensions[2]
                + armResult.extensions[3] + armResult.extensions[4], 4)>>
    ELSE <<>>

armLengthsOf(vcs, processed) ==
    LET ofCluster(c) ==
            ConcatRange([k \in 1..Len(c.points) |-> avgArmLength(armsAt(c.points[k], processed))],
                        1, Len(c.points))
    IN  ConcatRange([ci \in 1..Len(vcs) |-> ofCluster(vcs[ci])], 1, Len(vcs))

\* lines 152-184
\* lines 177-181: the median of the sorted arm lengths
medianOf(sorted) ==
    IF Len(sorted) % 2 = 0
    THEN RDiv(sorted[Len(sorted) \div 2] + sorted[Len(sorted) \div 2 + 1], 2)
    ELSE sorted[Len(sorted) \div 2 + 1]

\* lines 176-183
scaleOfLengths(armLengths) ==
    IF Len(armLengths) > 0 THEN medianOf(sortByKey(armLengths, armLengths))
    ELSE SCALE_REFERENCE_DEFAULT

\* lines 152-184
scaleReferenceOf(vcs, processed) ==
    IF Len(vcs) > 0 THEN scaleOfLengths(armLengthsOf(vcs, processed))
    ELSE SCALE_REFERENCE_DEFAULT

\* the pair scan with a break at the first pair in the intentional band as well
RECURSIVE scanPairsStopAtIntentional(_, _, _, _, _)
scanPairsStopAtIntentional(vcs, i, j, scale, hasIntentional) ==
    IF i > Len(vcs) THEN [hasMultiMark |-> FALSE, hasIntentionalInvalidation |-> hasIntentional]
    ELSE IF j > Len(vcs) THEN scanPairsStopAtIntentional(vcs, i + 1, i + 2, scale, hasIntentional)
    ELSE IF 100 * dist(vcs[i].centroid, vcs[j].centroid) >= scale * MULTI_MARK_MIN_RATIO
    THEN [hasMultiMark |-> TRUE, hasIntentionalInvalidation |-> hasIntentional]
    ELSE IF 100 * dist(vcs[i].centroid, vcs[j].centroid) >= scale * INTENTIONAL_MIN_RATIO
    THEN [hasMultiMark |-> FALSE, hasIntentionalInvalidation |-> TRUE]
    ELSE scanPairsStopAtIntentional(vcs, i, j + 1, scale, hasIntentional)

\* lines 196-210: the pair loops from (i, j) on, with their two flags and the breaks
RECURSIVE scanPairs(_, _, _, _, _)
scanPairs(vcs, i, j, scale, hasIntentional) ==
    IF i > Len(vcs) THEN [hasMultiMark |-> FALSE, hasIntentionalInvalidation |-> hasIntentional]
    ELSE IF j > Len(vcs) THEN scanPairs(vcs, i + 1, i + 2, scale, hasIntentional)
    ELSE LET d == dist(vcs[i].centroid, vcs[j].centroid)
         IN  IF 100 * d >= scale * MULTI_MARK_MIN_RATIO
             THEN [hasMultiMark |-> TRUE, hasIntentionalInvalidation |-> hasIntentional]
             ELSE IF 100 * d >= scale * INTENTIONAL_MIN_RATIO
             THEN scanPairs(vcs, i, j + 1, scale, TRUE)
             ELSE scanPairs(vcs, i, j + 1, scale, hasIntentional)

\* lines 187-210: the flags after the scan (both false with fewer than two valid clusters)
separationFlags(cls, scale) ==
    LET vcs == validClustersOf(cls)
    IN  IF Len(vcs) >= 2 THEN scanPairs(vcs, 1, 2, scale, FALSE)
        ELSE [hasMultiMark |-> FALSE, hasIntentionalInvalidation |-> FALSE]

\* lines 259-265: the stroke count of the first cluster that contains inter
RECURSIVE strokesAtClusterOf(_, _, _)
strokesAtClusterOf(inter, cls, ci) ==
    IF ci > Len(cls) THEN 2
    ELSE IF \E k \in 1..Len(cls[ci].points) : cls[ci].points[k] = inter
         THEN cls[ci].strokesAtCluster
         ELSE strokesAtClusterOf(inter, cls, ci + 1)

\* a candidate stamped with the strokes of its own two segments only
candidateOfOwnStrokes(inter, armResult, cls) ==
    IF armResult.valid
    THEN <<[point |-> Pt(inter.x, inter.y),
            minExtension |-> armResult.minExtension,
            extensions |-> armResult.extensions,
            armAngles |-> armResult.armAngles,
            strokesAtIntersection |->
                Cardinality({inter.seg1.strokeIndex, inter.seg2.strokeIndex})]>>
    ELSE <<>>

\* lines 249-275
\* lines 251-273: the candidate an intersection with four arms contributes
candidateOf(inter, armResult, cls) ==
    IF armResult.valid
    THEN <<[point |-> Pt(inter.x, inter.y),
            minExtension |-> armResult.minExtension,
            extensions |-> armResult.extensions,
            armAngles |-> armResult.armAngles,
            strokesAtIntersection |-> strokesAtClusterOf(inter, cls, 1)]>>
    ELSE <<>>

\* lines 249-275
candidatesFrom(inters, cls, processed) ==
    ConcatRange([i \in 1..Len(inters) |->
                    candidateOf(inters[i], armsAt(inters[i], processed), cls)],
                1, Len(inters))

\* a reduction that replaces the best candidate on a tie as well
RECURSIVE reduceBestOrEqual(_, _, _)
reduceBestOrEqual(cands, i, best) ==
    IF i > Len(cands) THEN best
    ELSE reduceBestOrEqual(cands, i + 1,
                           IF cands[i].minExtension >= best.minExtension THEN cands[i] ELSE best)

\* lines 289-291: reduce((best, curr) => curr.minExtension > best.minExtension ? curr : best)
RECURSIVE reduceBest(_, _, _)
reduceBest(cands, i, best) ==
    IF i > Len(cands) THEN best
    ELSE reduceBest(cands, i + 1,
                    IF cands[i].minExtension > best.minExtension THEN cands[i] ELSE best)

bestOf(cands) == reduceBest(cands, 2, cands[1])

\* an arm-balance test that accepts every candidate
armsNeverImbalanced(candidate) == FALSE

\* lines 329-336: minArm / maxArm < 0.70
armsImbalanced(candidate) ==
    LET minArm == candidate.minExtension
        maxArm == Max2(Max2(candidate.extensions[1], candidate.extensions[2]),
                       Max2(candidate.extensions[3], candidate.extensions[4]))
    IN  100 * minArm < ARM_BALANCE_LITERAL * maxArm

\* lines 306-363: does the branch-count check return wrong_symbol, and with which reason
branchVerdict(branches, strokeCount, candidate) ==
    IF branches < 2 THEN "no_cross_shape"
    ELSE IF branches > 2
    THEN (IF branches = 3
          THEN (IF strokeCount <= 2 THEN "pass"
                ELSE IF armsImbalanced(candidate) THEN "other_symbol" ELSE "pass")
          ELSE "other_symbol")
    ELSE "pass"

\* the one-stroke threshold applied to every stroke count
explainedInkThresholdSingle(strokeCount) == MIN_EXPLAINED_INK_RATIO_SINGLE

\* the default threshold for every stroke count
explainedInkThresholdDefault(strokeCount) == MIN_EXPLAINED_INK_RATIO

\* lines 367-375, in percent
explainedInkThreshold(strokeCount) ==
    IF strokeCount = 1 THEN MIN_EXPLAINED_INK_RATIO_SINGLE
    ELSE IF strokeCount = 2 THEN MIN_EXPLAINED_INK_RATIO_DOUBLE
    ELSE MIN_EXPLAINED_INK_RATIO

\* line 382: explainedRatio < explainedInkThreshold (ratio in per mille)
inkUnexplained(ratio, strokeCount) == ratio < 10 * explainedInkThreshold(strokeCount)

\* lines 14-19 and 98, 113, 293: the debugData accumulator (its info text is left out)
debugData ==
    [allIntersections |-> intersections, bestCandidate |-> bestCandidate,
     clusters |-> clusters]

\* a valid result whose reason text depends on the debug option
validResultReasonByDebug(opts) ==
    [valid |-> "true", label |-> "good", invalid_type |-> "null",
     reason |-> IF opts.debug THEN "debug" ELSE "",
     debug |-> IF opts.debug THEN debugData
               ELSE [intersections |-> Len(intersections),
                     crossCandidates |-> Len(crossCandidates),
                     minExtension |-> bestCandidate.minExtension,
                     branchCount |-> branchCount,
                     explainedRatio |-> explainedRatio]]

\* lines 397-409; the label 'บัตรดี' is written "good"
validResult(opts) ==
    [valid |-> "true", label |-> "good", invalid_type |-> "null", reason |-> "",
     debug |-> IF opts.debug THEN debugData
               ELSE [intersections |-> Len(intersections),
                     crossCandidates |-> Len(crossCandidates),
                     minExtension |-> bestCandidate.minExtension,
                     branchCount |-> branchCount,
                     explainedRatio |-> explainedRatio]]

----------------------------------------------------------------------------
(* The stroke lists validateMark is called on *)

\* the longest stroke list drawn from the catalogue
MaxStrokes == 3

Line(x1, y1, x2, y2) == <<Pt(x1, y1), Pt(x2, y2)>>

\* single strokes, all on the 500 x 400 canvas
Catalogue ==
    <<Line(210, 195, 290, 195),                       \* 1  horizontal bar through (250,195)
      Line(250, 155, 250, 235),                       \* 2  vertical bar through (250,195)
      Line(220, 165, 280, 225),                       \* 3  diagonal through (250,195)
      Line(216, 183, 284, 207),                       \* 4  shallow line (20 degrees) through (250,195)
      Line(250, 100, 250, 290),                       \* 5  long vertical bar through (250,195)
      Line(150, 195, 350, 195),                       \* 6  long horizontal bar
      Line(185, 155, 185, 235),                       \* 7  vertical bar near the long bar's left end
      <<Pt(190, 160), Pt(190, 230), Pt(250, 230),     \* 8  square wave crossing y = 195 three times
        Pt(250, 160), Pt(310, 160), Pt(310, 230)>>,
      <<Pt(220, 165), Pt(280, 225), Pt(280, 165),     \* 9  a cross drawn in one stroke
        Pt(220, 225)>>,
      Line(250, 185, 250, 205),                       \* 10 a short tick
      <<Pt(300, 250), Pt(302, 250), Pt(300, 250)>>,   \* 11 a tiny closed loop
      <<Pt(95, 100), Pt(80, 150), Pt(95, 200)>>,      \* 12 ends inside the box, bends outside
      <<Pt(250, 195)>>,                               \* 13 a one-point stroke
      <<>>>>                                          \* 14 a stroke without points

\* catalogue positions in increasing or in decreasing order
OrderedPicks(n) ==
    {p \in [1..n -> 1..Len(Catalogue)] :
        \/ \A i \in 1..(n - 1) : p[i] < p[i + 1]
        \/ \A i \in 1..(n - 1) : p[i] > p[i + 1]}

CatalogueLists ==
    UNION {{[i \in 1..n |-> Catalogue[p[i]]] : p \in OrderedPicks(n)} : n \in 0..MaxStrokes}

\* a hatching of more two-point strokes than MAX_POINTS_TOTAL allows points
Hatching ==
    [k \in 1..(MAX_POINTS_TOTAL \div 2 + 1) |-> Line(100 + (k % 300), 100, 100 + (k % 300), 130)]

\* a cross over the whole box with a second vertical bar 27 px beside the first
WideCross ==
    <<Line(87, 195, 413, 195), Line(250, 82, 250, 308), Line(277, 82, 277, 308)>>

StrokeLists ==
    CatalogueLists \cup {Hatching, <<Catalogue[12]>> \o Hatching, WideCross}

----------------------------------------------------------------------------
(* The state machine: one call of validateMark, then a second call on the   *)
(* same stroke list with the other debug option                             *)

locals == <<totalInkLength, processedStrokes, segments, intersections, clusters,
            scaleReference, crossCandidates, bestCandidate, branchCount, explainedRatio>>

ClearLocals ==
    /\ totalInkLength = 0
    /\ processedStrokes = <<>>
    /\ segments = <<>>
    /\ intersections = <<>>
    /\ clusters = <<>>
    /\ scaleReference = SCALE_REFERENCE_DEFAULT
    /\ crossCandidates = <<>>
    /\ bestCandidate = Null
    /\ branchCount = 0
    /\ explainedRatio = 0

\* null in a field that holds a pointer id or a timer id; the ids are positive
NoId == 0

\* null in the field currentStroke; a stroke being drawn has its first point, so the
\* field never holds an empty list
NoStroke == <<>>

\* the page: the drawing state, the browser's timers and the test runner
page == <<ballotState, browser, runner>>

\* input-handler.js:10-16
ballotStateInitial ==
    [strokes |-> <<>>, currentStroke |-> NoStroke, activePointerId |-> NoId,
     evaluationTimer |-> NoId, debugData |-> Null]

\* no timer was ever set, the timer callback never ran, no handler threw
browserInitial ==
    [timers |-> {}, nextTimerId |-> 1, validateMarkCalls |-> <<>>, uncaught |-> "none"]

\* part_000:11-16 (the constructor); the Run All button is disabled until tests are
\* loaded (part_000:454), the Stop button is hidden, no runAll call is in progress.
\* loops holds the loop index i of every runAll call suspended at its await.
runnerInitial ==
    [tests |-> <<>>, results |-> <<>>, running |-> FALSE, runAllBtnDisabled |-> TRUE,
     stopBtnShown |-> FALSE, loops |-> <<>>]

\* no event was delivered to the page
PageLoaded ==
    /\ ballotState = ballotStateInitial
    /\ browser = browserInitial
    /\ runner = runnerInitial

Init ==
    /\ strokes \in StrokeLists
    /\ options = [debug |-> FALSE]
    /\ pc = "call"
    /\ result = Null
    /\ lastResult = Null
    /\ args = Null
    /\ ret = Null
    /\ ClearLocals
    /\ PageLoaded

Return(r) ==
    /\ result' = r
    /\ pc' = "done"
    /\ UNCHANGED <<strokes, options, lastResult, args, ret, page>>

Goto(label) ==
    /\ pc' = label
    /\ UNCHANGED <<strokes, options, result, lastResult, args, ret, page>>

\* lines 22-30
ReturnWaiting ==
    /\ pc = "call"
    /\ Len(strokes) = 0
    /\ Return(WaitingResult)
    /\ UNCHANGED locals

\* preprocessing that writes the simplified strokes back into the caller's list
PreprocessInPlace ==
    /\ pc = "call"
    /\ Len(strokes) # 0
    /\ totalInkLength' = inkLength(strokes)
    /\ processedStrokes' = preprocess(strokes)
    /\ strokes' = processedStrokes'
    /\ pc' = "preprocessed"
    /\ UNCHANGED <<options, result, lastResult, args, ret, segments, intersections, clusters,
                   scaleReference, crossCandidates, bestCandidate, branchCount,
                   explainedRatio, page>>

\* lines 33-41
Preprocess ==
    /\ pc = "call"
    /\ Len(strokes) # 0
    /\ totalInkLength' = inkLength(strokes)
    /\ processedStrokes' = preprocess(strokes)
    /\ Goto("preprocessed")
    /\ UNCHANGED <<segments, intersections, clusters, scaleReference, crossCandidates,
                   bestCandidate, branchCount, explainedRatio>>

\* too little ink reported as a mark without a crossing
ReturnBlankAsNoCross ==
    /\ pc = "preprocessed"
    /\ totalInkLength < MIN_TOTAL_INK_LENGTH_PX
    /\ Return(Invalid("no_cross", "no_crossing", [totalInkLength |-> totalInkLength]))
    /\ UNCHANGED locals

\* lines 44-52; 'ไม่มีเครื่องหมาย' is written "no_mark"
ReturnBlank ==
    /\ pc = "preprocessed"
    /\ totalInkLength < MIN_TOTAL_INK_LENGTH_PX
    /\ Return(Invalid("blank", "no_mark", [totalInkLength |-> totalInkLength]))
    /\ UNCHANGED locals

\* lines 55-64; 'ทำเครื่องหมายแบบอื่น' is written "other_symbol"
ReturnTooManyPoints ==
    /\ pc = "preprocessed"
    /\ ~(totalInkLength < MIN_TOTAL_INK_LENGTH_PX)
    /\ totalPoints(processedStrokes) > MAX_POINTS_TOTAL
    /\ Return(Invalid("wrong_symbol", "other_symbol",
                      [totalPoints |-> totalPoints(processedStrokes)]))
    /\ UNCHANGED locals

\* lines 67-92; 'ล้ำออกนอกกรอบ' is written "outside_frame"
ReturnOutsideBox ==
    /\ pc = "preprocessed"
    /\ ~(totalInkLength < MIN_TOTAL_INK_LENGTH_PX)
    /\ ~(totalPoints(processedStrokes) > MAX_POINTS_TOTAL)
    /\ inkLeavesBox(processedStrokes)
    /\ Return(Invalid("outside_box", "outside_frame", [outsidePoint |-> TRUE]))
    /\ UNCHANGED locals

\* lines 95-98
FindIntersections ==
    /\ pc = "preprocessed"
    /\ ~(totalInkLength < MIN_TOTAL_INK_LENGTH_PX)
    /\ ~(totalPoints(processedStrokes) > MAX_POINTS_TOTAL)
    /\ ~inkLeavesBox(processedStrokes)
    /\ segments' = buildSegments(processedStrokes)
    /\ intersections' = findAllIntersections(segments')
    /\ Goto("intersected")
    /\ UNCHANGED <<totalInkLength, processedStrokes, clusters, scaleReference,
                   crossCandidates, bestCandidate, branchCount, explainedRatio>>

\* lines 101-109; 'ไม่มีจุดตัดแบบกากบาท' is written "no_crossing"
ReturnNoCross ==
    /\ pc = "intersected"
    /\ Len(intersections) = 0
    /\ Return(Invalid("no_cross", "no_crossing", [intersections |-> 0]))
    /\ UNCHANGED locals

\* lines 112-184
AnalyzeClusters ==
    /\ pc = "intersected"
    /\ Len(intersections) # 0
    /\ clusters' =
         LET cls == clusterIntersections(intersections, CROSS_CLUSTER_EPS_PX)
         IN  [c \in 1..Len(cls) |-> analyzeCluster(cls[c], processedStrokes)]
    /\ scaleReference' = scaleReferenceOf(validClustersOf(clusters'), processedStrokes)
    /\ Goto("clustered")
    /\ UNCHANGED <<totalInkLength, processedStrokes, segments, intersections,
                   crossCandidates, bestCandidate, branchCount, explainedRatio>>

\* lines 213-225; 'ทำเครื่องหมายมากกว่า 1 จุด' is written "more_than_one_mark"
ReturnMultiMark ==
    /\ pc = "clustered"
    /\ separationFlags(clusters, scaleReference).hasMultiMark
    /\ Return(Invalid("multi_mark", "more_than_one_mark",
                      [validClusters |-> Len(validClustersOf(clusters)),
                       scaleReference |-> scaleReference]))
    /\ UNCHANGED locals

\* lines 228-240; 'ทำเครื่องหมายเพิ่มเติมเพื่อให้บัตรเสีย' is written "extra_mark_to_spoil"
ReturnIntentional ==
    /\ pc = "clustered"
    /\ ~separationFlags(clusters, scaleReference).hasMultiMark
    /\ separationFlags(clusters, scaleReference).hasIntentionalInvalidation
    /\ Return(Invalid("wrong_symbol", "extra_mark_to_spoil",
                      [validClusters |-> Len(validClustersOf(clusters)),
                       scaleReference |-> scaleReference]))
    /\ UNCHANGED locals

\* lines 247-275
BuildCandidates ==
    /\ pc = "clustered"
    /\ ~separationFlags(clusters, scaleReference).hasMultiMark
    /\ ~separationFlags(clusters, scaleReference).hasIntentionalInvalidation
    /\ crossCandidates' = candidatesFrom(intersections, clusters, processedStrokes)
    /\ Goto("candidates")
    /\ UNCHANGED <<totalInkLength, processedStrokes, segments, intersections, clusters,
                   scaleReference, bestCandidate, branchCount, explainedRatio>>

\* lines 278-286
ReturnNoCandidate ==
    /\ pc = "candidates"
    /\ Len(crossCandidates) = 0
    /\ Return(Invalid("wrong_symbol", "other_symbol", [crossCandidates |-> 0]))
    /\ UNCHANGED locals

\* lines 289-296
SelectBest ==
    /\ pc = "candidates"
    /\ Len(crossCandidates) # 0
    /\ bestCandidate' = bestOf(crossCandidates)
    /\ branchCount' = countGlobalBranches(bestCandidate'.point, processedStrokes)
    /\ Goto("topology")
    /\ UNCHANGED <<totalInkLength, processedStrokes, segments, intersections, clusters,
                   scaleReference, crossCandidates, explainedRatio>>

\* lines 306-363; 'ไม่มีรูปร่างกากบาท' is written "no_cross_shape"
ReturnBranches ==
    /\ pc = "topology"
    /\ branchVerdict(branchCount, Len(strokes), bestCandidate) # "pass"
    /\ Return(Invalid("wrong_symbol", branchVerdict(branchCount, Len(strokes), bestCandidate),
                      [branchCount |-> branchCount]))
    /\ UNCHANGED locals

\* lines 367-380
ScoreInk ==
    /\ pc = "topology"
    /\ branchVerdict(branchCount, Len(strokes), bestCandidate) = "pass"
    /\ explainedRatio' = calculateExplainedInkRatio(bestCandidate, processedStrokes, segments)
    /\ Goto("scored")
    /\ UNCHANGED <<totalInkLength, processedStrokes, segments, intersections, clusters,
                   scaleReference, crossCandidates, bestCandidate, branchCount>>

\* lines 382-394; 'มีสัญลักษณ์หรือข้อความเพิ่มเติม' is written "extra_symbols_or_text"
ReturnExtraWriting ==
    /\ pc = "scored"
    /\ inkUnexplained(explainedRatio, Len(strokes))
    /\ Return(Invalid("extra_writing", "extra_symbols_or_text",
                      [explainedRatio |-> explainedRatio,
                       threshold |-> explainedInkThreshold(Len(strokes)),
                       strokeCount |-> Len(strokes)]))
    /\ UNCHANGED locals

\* lines 397-409
ReturnValid ==
    /\ pc = "scored"
    /\ ~inkUnexplained(explainedRatio, Len(strokes))
    /\ Return(validResult(options))
    /\ UNCHANGED locals

\* the caller validates the same stroke list again, with debug: true
\* (input-handler.js:129, app.js:49, part_000:111)
CallAgain ==
    /\ pc = "done"
    /\ lastResult = Null
    /\ lastResult' = result
    /\ options' = [debug |-> TRUE]
    /\ pc' = "call"
    /\ result' = Null
    /\ totalInkLength' = 0
    /\ processedStrokes' = <<>>
    /\ segments' = <<>>
    /\ intersections' = <<>>
    /\ clusters' = <<>>
    /\ scaleReference' = SCALE_REFERENCE_DEFAULT
    /\ crossCandidates' = <<>>
    /\ bestCandidate' = Null
    /\ branchCount' = 0
    /\ explainedRatio' = 0
    /\ UNCHANGED <<strokes, args, ret, page>>

Next ==
    \/ ReturnWaiting
    \/ Preprocess
    \/ ReturnBlank
    \/ ReturnTooManyPoints
    \/ ReturnOutsideBox
    \/ FindIntersections
    \/ ReturnNoCross
    \/ AnalyzeClusters
    \/ ReturnMultiMark
    \/ ReturnIntentional
    \/ BuildCandidates
    \/ ReturnNoCandidate
    \/ SelectBest
    \/ ReturnBranches
    \/ ScoreInk
    \/ ReturnExtraWriting
    \/ ReturnValid
    \/ CallAgain

Spec == Init /\ [][Next]_vars

\* one call of validateMark, without the second call of the caller
CallNext ==
    \/ ReturnWaiting
    \/ Preprocess
    \/ ReturnBlank
    \/ ReturnTooManyPoints
    \/ ReturnOutsideBox
    \/ FindIntersections
    \/ ReturnNoCross
    \/ AnalyzeClusters
    \/ ReturnMultiMark
    \/ ReturnIntentional
    \/ BuildCandidates
    \/ ReturnNoCandidate
    \/ SelectBest
    \/ ReturnBranches
    \/ ScoreInk
    \/ ReturnExtraWriting
    \/ ReturnValid

CallSpec == Init /\ [][CallNext]_vars

\* the positions of a call: before it, after each stage, and returned
Stages ==
    {"call", "preprocessed", "intersected", "clustered", "candidates", "topology",
     "scored", "done"}

\* validateMark is straight-line code: a call that has not returned moves on
Advance == pc # "done" /\ pc' \in Stages \ {pc}

FairSpec == Spec /\ WF_pc(Advance)

----------------------------------------------------------------------------
(* Properties of validateMark *)

Returned == pc = "done"

\* the cross-valid clusters of the last cluster analysis
validClusters == validClustersOf(clusters)

\* some sub-point (spaced RESAMPLE_STEP_PX) of a simplified segment, or the point of a
\* segment of length zero, lies outside the vote box widened by BOX_TOLERANCE_PX
subPointOutside(p1, p2) ==
    IF dist(p1, p2) = 0 THEN ~pointInRect(p1, VOTE_BOX, BOX_TOLERANCE_PX)
    ELSE \E j \in 0..((dist(p1, p2) + RESAMPLE_STEP_PX - 1) \div RESAMPLE_STEP_PX) :
            ~pointInRect(samplePoint(p1, p2, j,
                            (dist(p1, p2) + RESAMPLE_STEP_PX - 1) \div RESAMPLE_STEP_PX),
                         VOTE_BOX, BOX_TOLERANCE_PX)

inkOutsideBox(processed) ==
    \E q \in segPositions(processed) :
        subPointOutside(processed[q[1]][q[2]], processed[q[1]][q[2] + 1])

\* C1: when best-candidate selection has run and the best candidate's
\* strokesAtIntersection is at least 3, the call returns invalid_type wrong_symbol,
\* whatever the branch count, the arm balance and the explained-ink ratio are
StarIsWrongSymbol ==
    (Returned /\ bestCandidate # Null /\ bestCandidate.strokesAtIntersection >= 3)
        => result.invalid_type = "wrong_symbol"

\* C2: when some pair of cross-valid clusters, in whatever position of the scan, lies at
\* least MULTI_MARK_MIN_RATIO x scaleReference apart, the call returns multi_mark, also
\* when a pair scanned before it fell in the intentional band
MultiMarkAnyPair ==
    (Returned /\ Len(intersections) > 0
       /\ \E i, j \in 1..Len(validClusters) :
             /\ i # j
             /\ 100 * dist(validClusters[i].centroid, validClusters[j].centroid)
                    >= scaleReference * MULTI_MARK_MIN_RATIO)
        => result.invalid_type = "multi_mark"

\* a multi_mark verdict whose first scanned pair lies in the intentional band
MultiMarkAfterIntentional ==
    /\ Returned
    /\ result.invalid_type = "multi_mark"
    /\ Len(validClusters) >= 3
    /\ 100 * dist(validClusters[1].centroid, validClusters[2].centroid)
           >= scaleReference * INTENTIONAL_MIN_RATIO
    /\ 100 * dist(validClusters[1].centroid, validClusters[2].centroid)
           < scaleReference * MULTI_MARK_MIN_RATIO

\* C3: of the categories whose conditions an input meets, the earliest in the order
\* WAITING < BLANK < OUTSIDE_BOX < ... is returned: a non-empty stroke list with enough
\* ink whose simplified ink leaves the box is outside_box, never wrong_symbol, also
\* with more than MAX_POINTS_TOTAL simplified points
OutsideBoxBeforeWrongSymbol ==
    (Returned /\ Len(strokes) > 0 /\ totalInkLength >= MIN_TOTAL_INK_LENGTH_PX
       /\ inkOutsideBox(processedStrokes))
        => result.invalid_type = "outside_box"

\* C4: a valid result means every check passed: strokes, ink, point count, box,
\* an intersection, no cluster pair in the intentional or the multi-mark band, a
\* candidate, two branches (or three with at most two strokes or balanced arms) and
\* enough explained ink
ValidMeansAllChecksPassed ==
    (Returned /\ result.valid = "true") =>
        /\ Len(strokes) > 0
        /\ totalInkLength = inkLength(strokes)
        /\ totalInkLength >= MIN_TOTAL_INK_LENGTH_PX
        /\ totalPoints(processedStrokes) <= MAX_POINTS_TOTAL
        /\ ~inkOutsideBox(processedStrokes)
        /\ Len(intersections) > 0
        /\ \A i, j \in 1..Len(validClusters) :
              i # j => 100 * dist(validClusters[i].centroid, validClusters[j].centroid)
                          < scaleReference * INTENTIONAL_MIN_RATIO
        /\ Len(crossCandidates) > 0
        /\ bestCandidate # Null
        /\ branchCount \in {2, 3}
        /\ branchCount = 3 =>
              \/ Len(strokes) <= 2
              \/ 100 * bestCandidate.minExtension
                    >= ARM_BALANCE_LITERAL * SetMax({bestCandidate.extensions[k] : k \in 1..4})
        /\ explainedRatio >= 10 * (CASE Len(strokes) = 1 -> MIN_EXPLAINED_INK_RATIO_SINGLE
                                     [] Len(strokes) = 2 -> MIN_EXPLAINED_INK_RATIO_DOUBLE
                                     [] OTHER -> MIN_EXPLAINED_INK_RATIO)

\* a valid mark of three strokes with three branches, accepted on its arm balance
ValidWithThreeBranches ==
    Returned /\ result.valid = "true" /\ branchCount = 3 /\ Len(strokes) = 3

\* C5: outside_box is returned only if some point of a simplified stroke lies outside
\* the widened box; a segment of length zero inside the box does not cause it
OutsideBoxIsReal ==
    (Returned /\ result.invalid_type = "outside_box") => inkOutsideBox(processedStrokes)

\* C6: with enough ink and no more than MAX_POINTS_TOTAL simplified points, ink with
\* a sub-point outside the widened box returns outside_box and reaches no later check
OutsideInkStopsAtBox ==
    (pc # "call" /\ pc # "preprocessed" /\ Len(strokes) > 0
       /\ totalInkLength >= MIN_TOTAL_INK_LENGTH_PX
       /\ totalPoints(processedStrokes) <= MAX_POINTS_TOTAL
       /\ inkOutsideBox(processedStrokes))
        => /\ Returned
           /\ result.invalid_type = "outside_box"
           /\ segments = <<>> /\ intersections = <<>> /\ clusters = <<>>
           /\ crossCandidates = <<>> /\ bestCandidate = Null

\* outside_box for a stroke list all of whose stroke ends are inside the vote box
OutsideWithEndsInside ==
    /\ Returned
    /\ result.invalid_type = "outside_box"
    /\ inkOutsideBox(processedStrokes)
    /\ \A k \in 1..Len(strokes) :
          /\ Len(strokes[k]) >= 2
          /\ pointInRect(strokes[k][1], VOTE_BOX, 0)
          /\ pointInRect(strokes[k][Len(strokes[k])], VOTE_BOX, 0)

WaitingIffNoStrokes ==
    Returned =>
        /\ result.valid = "null" <=> Len(strokes) = 0
        /\ result.valid = "null" => result.invalid_type = "null" /\ result.label = "waiting"
        /\ Len(strokes) > 0 => result.valid \in {"true", "false"}

WaitingReturned == Returned /\ Len(strokes) = 0 /\ result.valid = "null"

\* C9: on every return path valid is false exactly when invalid_type is one of the six
\* invalid categories, and valid true and valid null carry invalid_type null
ResultWellFormed ==
    Returned =>
        /\ result.valid \in {"true", "false", "null"}
        /\ result.valid = "false" <=>
              result.invalid_type \in {"blank", "outside_box", "no_cross", "multi_mark",
                                       "wrong_symbol", "extra_writing"}
        /\ result.valid \in {"true", "null"} => result.invalid_type = "null"

\* an invalid result of the last category of the pipeline
ExtraWritingReturned ==
    Returned /\ result.valid = "false" /\ result.invalid_type = "extra_writing"

\* C10: the call with debug: true returns the valid, invalid_type and reason of the
\* call with debug: false on the same stroke list
DebugHasNoEffect ==
    (Returned /\ lastResult # Null) =>
        /\ options.debug /\ result.valid = lastResult.valid
        /\ result.invalid_type = lastResult.invalid_type
        /\ result.reason = lastResult.reason

\* the two calls agree on a valid mark while their debug outputs differ
DebugOutputDiffers ==
    /\ Returned
    /\ lastResult # Null
    /\ options.debug
    /\ result.valid = "true"
    /\ result.debug # lastResult.debug

----------------------------------------------------------------------------
(* Direct calls of the library functions: one call, its arguments in args, its
   value in ret; no call of validateMark is in progress *)

NoMarkCall ==
    /\ strokes = <<>>
    /\ options = [debug |-> FALSE]
    /\ result = Null
    /\ lastResult = Null
    /\ ClearLocals
    /\ PageLoaded

DirectCall(fn) ==
    /\ pc = "direct"
    /\ args.fn = fn
    /\ ret = Null
    /\ NoMarkCall

Reply(fn, value) ==
    /\ pc = "direct"
    /\ args.fn = fn
    /\ ret' = value
    /\ pc' = "returned"
    /\ UNCHANGED <<strokes, options, result, lastResult, args, locals, page>>

Replied(fn) == pc = "returned" /\ args.fn = fn

\* BallotTopology.clusterIntersections on one list of intersections, once with each
\* of two radii
MaxInters == 3

ClusterPoints ==
    {Pt(250 + 10 * i, 195) : i \in 0..3} \cup {Pt(250, 205), Pt(270, 215)}

ClusterEps == {10, 20, CROSS_CLUSTER_EPS_PX}

ClusterInputs ==
    {[fn |-> "clusterIntersections", inters |-> l, eps1 |-> e1, eps2 |-> e2] :
        l \in UNION {[1..n -> ClusterPoints] : n \in 0..MaxInters},
        e1 \in ClusterEps, e2 \in ClusterEps}

ClusterInit == args \in ClusterInputs /\ args.eps1 <= args.eps2 /\ DirectCall("clusterIntersections")

ClusterCall ==
    Reply("clusterIntersections",
          [lo |-> clusterIntersections(args.inters, args.eps1),
           hi |-> clusterIntersections(args.inters, args.eps2)])

ClusterSpec == ClusterInit /\ [][ClusterCall]_vars

\* the positions (0-based, as in cluster.indices) of the cluster that holds position i
indexSet(cluster) == {cluster.indices[k] : k \in 1..Len(cluster.indices)}

clusterOf(clusterList, i) ==
    CHOOSE s \in {indexSet(clusterList[c]) : c \in 1..Len(clusterList)} : i \in s

ClusterTransitivelyClosed ==
    Replied("clusterIntersections") =>
        \A i, j \in 0..(Len(args.inters) - 1) :
            dist(args.inters[i + 1], args.inters[j + 1]) <= args.eps1
                => clusterOf(ret.lo, i) = clusterOf(ret.lo, j)

\* BallotTopology.clusterAngles on a list of weighted directions and on the same
\* directions turned by a constant offset
MaxAngles == 3

AngleItems ==
    {[angle |-> a, weight |-> 1] : a \in {0, 5, 10, 30, 60, 90, 170, 175}}
        \cup {[angle |-> 85, weight |-> 3]}

AngleOffsets == {30, 90, 150}

AnglesInputs ==
    {[fn |-> "clusterAngles", angleData |-> l, offset |-> o,
      tolerance |-> BRANCH_ANGLE_CLUSTER_TOL_DEG] :
        l \in UNION {[1..n -> AngleItems] : n \in 0..MaxAngles}, o \in AngleOffsets}

\* every direction turned by the offset and folded back into [0, 180)
turned(angleData, offset) ==
    [i \in 1..Len(angleData) |->
        [angle |-> (angleData[i].angle + offset) % 180, weight |-> angleData[i].weight]]

AnglesInit == args \in AnglesInputs /\ DirectCall("clusterAngles")

AnglesCall ==
    Reply("clusterAngles",
          [modes  |-> clusterAngles(args.angleData, args.tolerance),
           turned |-> clusterAngles(turned(args.angleData, args.offset), args.tolerance)])

AnglesSpec == AnglesInit /\ [][AnglesCall]_vars

\* C14: turning every direction by the same offset leaves the number of modes
\* unchanged, also when the turned directions lie across the 0/180 seam
AnglesRotationConsistent ==
    Replied("clusterAngles") => Len(ret.modes) = Len(ret.turned)

\* BallotPreprocessing.simplifyRDP on a point sequence, and again on its own output
MaxPoints == 4

RdpPoints == {Pt(x, y) : x \in {0, 4, 8}, y \in {0, 2, 8}}

RdpInputs ==
    {[fn |-> "simplifyRDP", points |-> l, epsilon |-> e] :
        l \in UNION {[1..n -> RdpPoints] : n \in 0..MaxPoints},
        e \in {0, SIMPLIFY_EPSILON_PX}}

RdpInit == args \in RdpInputs /\ DirectCall("simplifyRDP")

RdpCall ==
    /\ pc = "direct"
    /\ args.fn = "simplifyRDP"
    /\ ret' = [first |-> simplifyRDP(args.points, args.epsilon), second |-> Null]
    /\ pc' = "again"
    /\ UNCHANGED <<strokes, options, result, lastResult, args, locals, page>>

RdpCallAgain ==
    /\ pc = "again"
    /\ ret' = [ret EXCEPT !.second = simplifyRDP(ret.first, args.epsilon)]
    /\ pc' = "returned"
    /\ UNCHANGED <<strokes, options, result, lastResult, args, locals, page>>

RdpNext == RdpCall \/ RdpCallAgain

RdpSpec == RdpInit /\ [][RdpNext]_vars

\* C15: simplifying an already simplified point sequence with the same epsilon
\* returns it unchanged
RdpIdempotent ==
    Replied("simplifyRDP") => ret.second = ret.first

\* a sequence of four points simplified twice, the first call having dropped one
\* inner point and kept the other
RdpKeptOneDroppedOne ==
    /\ Replied("simplifyRDP")
    /\ Len(args.points) = 4
    /\ Len(ret.first) = 3
    /\ ret.second # Null

\* BallotExplainedInk.calculateExplainedInkRatio on a candidate and the segments of
\* a list of strokes
MaxInkStrokes == 2

InkStrokes ==
    {Line(210, 195, 290, 195), Line(250, 155, 250, 235), Line(220, 165, 280, 225),
     Line(216, 189, 284, 201), Line(300, 100, 340, 100), Line(250, 195, 250, 195),
     <<Pt(230, 195)>>, <<Pt(250, 195), Pt(270, 195), Pt(270, 235), Pt(270, 235)>>}

InkCandidates ==
    {[point |-> p, armAngles |-> armAnglesOf(a[1], a[2])] :
        p \in {Pt(250, 195), Pt(270, 205)},
        a \in {<<0, 90>>, <<0, 10>>, <<45, 135>>, <<170, 5>>}}

InkInputs ==
    {[fn |-> "calculateExplainedInkRatio", candidate |-> c, strokeList |-> l,
      segments |-> buildSegments(l)] :
        c \in InkCandidates,
        l \in UNION {[1..n -> InkStrokes] : n \in 0..MaxInkStrokes}}

InkInit == args \in InkInputs /\ DirectCall("calculateExplainedInkRatio")

InkCall ==
    Reply("calculateExplainedInkRatio",
          calculateExplainedInkRatio(args.candidate, args.strokeList, args.segments))

InkSpec == InkInit /\ [][InkCall]_vars

\* C16: the explained-ink ratio lies between 0 and 1 (1000 per mille) for every
\* candidate and segment list, and is 0 when the segments have no length in total
InkRatioInUnitInterval ==
    Replied("calculateExplainedInkRatio") =>
        /\ ret \in 0..1000
        /\ SumRange([k \in 1..Len(args.segments) |-> args.segments[k].length],
                    1, Len(args.segments)) = 0 => ret = 0

\* a returned ratio of 1 for segments one of which is explained by both axes
InkExplainedByBothAxes ==
    /\ Replied("calculateExplainedInkRatio")
    /\ ret = 1000
    /\ \E k \in 1..Len(args.segments) :
          /\ args.segments[k].length > 0
          /\ segmentExplained(args.segments[k], args.candidate.point,
                              args.candidate.armAngles[1] % 180,
                              args.candidate.armAngles[1] % 180)
          /\ segmentExplained(args.segments[k], args.candidate.point,
                              args.candidate.armAngles[3] % 180,
                              args.candidate.armAngles[3] % 180)

\* BallotIntersection.findSegmentIntersection on two segments that cross at the
\* middle of each, drawn in either orientation
MaxCrossings == 2

CrossVectors ==
    {<<40, 0>>, <<-40, 0>>, <<0, 40>>, <<0, -40>>, <<30, 30>>, <<-30, -30>>,
     <<30, -30>>, <<-30, 30>>, <<40, 7>>, <<-40, -7>>, <<40, 17>>, <<17, -40>>}

CrossCentres == {Pt(250 + 20 * k, 195) : k \in 0..(MaxCrossings - 1)}

\* the one segment of the two-point stroke through centre c along v
segmentThrough(c, v, si) ==
    strokeSegments(Line(c.x - v[1], c.y - v[2], c.x + v[1], c.y + v[2]), si)[1]

CrossInputs ==
    {[fn |-> "findSegmentIntersection",
      seg1 |-> segmentThrough(c, v1, 0), seg2 |-> segmentThrough(c, v2, 1)] :
        c \in CrossCentres, v1 \in CrossVectors, v2 \in CrossVectors}

CrossInit == args \in CrossInputs /\ DirectCall("findSegmentIntersection")

CrossCall ==
    Reply("findSegmentIntersection", findSegmentIntersection(args.seg1, args.seg2))

CrossSpec == CrossInit /\ [][CrossCall]_vars

\* the direction of a segment as an undirected line, in [0, 180)
lineDirection(seg) == NormDeg(Atan2Deg(seg.p2.y - seg.p1.y, seg.p2.x - seg.p1.x), 180)

\* the acute angle between the lines of two segments, in [0, 90]
acuteAngle(seg1, seg2) ==
    Min2(Abs(lineDirection(seg1) - lineDirection(seg2)),
         180 - Abs(lineDirection(seg1) - lineDirection(seg2)))

\* C19: two segments that cross away from their stroke ends are rejected exactly when
\* their acute crossing angle is below MIN_CROSSING_ANGLE_DEG, whatever the orientation
\* of each segment, and the angle reported for a crossing lies in [0, 90]
CrossingAngleFolded ==
    Replied("findSegmentIntersection") =>
        /\ ret.ok <=> acuteAngle(args.seg1, args.seg2) >= MIN_CROSSING_ANGLE_DEG
        /\ ret.ok => ret.angle \in 0..90

\* C24: every mode returned by clusterAngles, the mode merged through the 0/180 seam
\* included, has its angle in [0, 180)
ModeAnglesInHalfTurn ==
    Replied("clusterAngles") =>
        \A k \in 1..Len(ret.modes) : ret.modes[k].angle >= 0 /\ ret.modes[k].angle < 180

\* BallotArmExtension.measure4ArmExtension at the crossing (250, 195) of two strokes,
\* with further strokes near the arms
MaxArmStrokes == 2

ArmFirstStrokes == {Line(210, 195, 290, 195), Line(216, 183, 284, 207)}

ArmSecondStrokes == {Line(250, 155, 250, 235), Line(220, 225, 280, 165)}

ArmExtraStrokes ==
    {Line(250, 195, 290, 209), Line(292, 195, 330, 203), Line(250, 150, 262, 120),
     Line(255, 195, 262, 195), Line(250, 236, 250, 260), Line(150, 100, 190, 100)}

ArmInputs ==
    {[fn |-> "measure4ArmExtension", P |-> Pt(250, 195),
      seg1 |-> strokeSegments(a, 0)[1], seg2 |-> strokeSegments(b, 1)[1],
      allStrokes |-> <<a, b>> \o l] :
        a \in ArmFirstStrokes, b \in ArmSecondStrokes,
        l \in UNION {[1..n -> ArmExtraStrokes] : n \in 0..MaxArmStrokes}}

ArmInit == args \in ArmInputs /\ DirectCall("measure4ArmExtension")

ArmCall ==
    Reply("measure4ArmExtension",
          measure4ArmExtension(args.P, args.seg1, args.seg2, args.allStrokes))

ArmSpec == ArmInit /\ [][ArmCall]_vars

\* 1000 x the farthest extent of the ink from P measured along the direction: the
\* largest projection of a stroke point onto the direction, 0 when none is ahead
inkExtent1000(P, direction, allStrokes) ==
    SetMax({0} \cup UNION
           {{(allStrokes[si][i].x - P.x) * Cos1000(direction)
               + (allStrokes[si][i].y - P.y) * Sin1000(direction) :
                 i \in 1..Len(allStrokes[si])} : si \in 1..Len(allStrokes)})

\* C25: an arm is no longer than the farthest extent of the ink measured along the arm
\* direction (the largest forward projection onto it; one pixel is allowed for the
\* rounding of lengths), the measurement is valid exactly when the four arms are at
\* least MIN_ARM_EXTENSION_PX, and minExtension is the least of the four
ArmWithinInkExtent ==
    Replied("measure4ArmExtension") =>
        /\ \A k \in 1..4 :
              1000 * ret.extensions[k]
                  <= inkExtent1000(args.P, ret.armAngles[k], args.allStrokes) + 1000
        /\ ret.valid <=> \A k \in 1..4 : ret.extensions[k] >= MIN_ARM_EXTENSION_PX
        /\ \A k \in 1..4 : ret.minExtension <= ret.extensions[k]
        /\ \E k \in 1..4 : ret.minExtension = ret.extensions[k]

\* C11: no step of a call changes the caller's stroke list: the same strokes in the
\* same order, each with the same points
InputNeverMutated == [][strokes' = strokes]_vars

\* a returned call that passed a short stroke through as it was and simplified another
\* one into a new sequence that starts and ends with the stroke's own end points
PassThroughAndSimplified ==
    /\ Returned
    /\ Len(processedStrokes) = Len(strokes)
    /\ \E k \in 1..Len(strokes) :
          Len(strokes[k]) < 2 /\ processedStrokes[k] = strokes[k]
    /\ \E k \in 1..Len(strokes) :
          /\ Len(strokes[k]) >= 2
          /\ processedStrokes[k] # strokes[k]
          /\ processedStrokes[k][1] = strokes[k][1]
          /\ processedStrokes[k][Len(processedStrokes[k])] = strokes[k][Len(strokes[k])]

\* C13: the explained-ink threshold is a function of the stroke count alone, SINGLE for
\* one stroke, DOUBLE for two, the default for three or more, and does not decrease
\* with the count; a call that reached the explained-ink check returns extra_writing
\* exactly when the ratio is below the threshold and returns valid otherwise
InkThresholdByStrokeCount ==
    [][pc = "scored" =>
         LET n == Len(strokes)
             threshold == IF n = 1 THEN MIN_EXPLAINED_INK_RATIO_SINGLE
                          ELSE IF n = 2 THEN MIN_EXPLAINED_INK_RATIO_DOUBLE
                          ELSE MIN_EXPLAINED_INK_RATIO
         IN  /\ MIN_EXPLAINED_INK_RATIO_SINGLE <= MIN_EXPLAINED_INK_RATIO_DOUBLE
             /\ MIN_EXPLAINED_INK_RATIO_DOUBLE <= MIN_EXPLAINED_INK_RATIO
             /\ pc' = "done"
             /\ IF explainedRatio < 10 * threshold
                 THEN /\ result'.valid = "false"
                      /\ result'.invalid_type = "extra_writing"
                      /\ result'.debug.threshold = threshold
                      /\ result'.debug.strokeCount = n
                 ELSE /\ result'.valid = "true"
                      /\ result'.invalid_type = "null"]_vars

\* a mark of two strokes returned valid with a ratio that the default threshold of
\* three strokes would reject
ValidBelowDefaultThreshold ==
    /\ Returned
    /\ result.valid = "true"
    /\ Len(strokes) = 2
    /\ explainedRatio >= 10 * MIN_EXPLAINED_INK_RATIO_DOUBLE
    /\ explainedRatio < 10 * MIN_EXPLAINED_INK_RATIO

\* C18: with two or more cross-valid clusters, a pair of centroids at least
\* MULTI_MARK_MIN_RATIO x scaleReference apart returns multi_mark; without such a pair,
\* a pair at least RETRACE_TOLERANCE_RATIO x scaleReference apart returns the
\* intentional-invalidation wrong_symbol; with every pair closer than that, neither
\* is returned and the call goes on as for one retraced mark
SeparationBands ==
    (Returned /\ Len(intersections) > 0 /\ Len(validClusters) >= 2) =>
        LET apart(ratio) ==
                \E i, j \in 1..Len(validClusters) :
                    /\ i # j
                    /\ 100 * dist(validClusters[i].centroid, validClusters[j].centroid)
                           >= scaleReference * ratio
        IN  /\ apart(MULTI_MARK_MIN_RATIO) => result.invalid_type = "multi_mark"
            /\ (~apart(MULTI_MARK_MIN_RATIO) /\ apart(RETRACE_TOLERANCE_RATIO))
                   => (result.invalid_type = "wrong_symbol"
                         /\ result.reason = "extra_mark_to_spoil")
            /\ ~apart(RETRACE_TOLERANCE_RATIO)
                   => result.reason \notin {"more_than_one_mark", "extra_mark_to_spoil"}

\* C20: a call that reached the branch-count check returns wrong_symbol when the branch
\* count is below 2, or at least 4, or 3 with three or more strokes and weakest arm /
\* strongest arm of the best candidate below the balance threshold; otherwise the
\* check returns nothing and the call goes on to the explained-ink check
BranchCountDecision ==
    [][pc = "topology" =>
         LET arms == {bestCandidate.extensions[k] : k \in 1..4}
             weakest   == CHOOSE a \in arms : \A b \in arms : a <= b
             strongest == CHOOSE a \in arms : \A b \in arms : a >= b
             rejected ==
                 \/ branchCount < 2
                 \/ branchCount >= 4
                 \/ /\ branchCount = 3
                    /\ Len(strokes) >= 3
                    /\ 100 * weakest < ARM_BALANCE_LITERAL * strongest
         IN  IF rejected
             THEN /\ pc' = "done"
                  /\ result'.valid = "false"
                  /\ result'.invalid_type = "wrong_symbol"
             ELSE /\ pc' = "scored"
                  /\ result' = Null]_vars

\* three branches of three or more strokes rejected for the imbalance of the arms
ThreeBranchesImbalanced ==
    /\ Returned
    /\ branchCount = 3
    /\ Len(strokes) >= 3
    /\ result.invalid_type = "wrong_symbol"
    /\ result.reason = "other_symbol"
    /\ result.debug = [branchCount |-> 3]

\* the positions (1-based) of the intersections whose four arms are valid, in order
validPositions ==
    LET isValid(i) == armsAt(intersections[i], processedStrokes).valid
    IN  SelectSeq([i \in 1..Len(intersections) |-> i], isValid)

\* the distinct strokes over both segments of the intersections at the given positions
strokesOver(positions) ==
    {intersections[i].seg1.strokeIndex : i \in positions}
        \cup {intersections[i].seg2.strokeIndex : i \in positions}

\* C21: strokesAtCluster of every cluster is the number of distinct strokes over seg1
\* and seg2 of all its intersections, and the k-th cross candidate, made from the k-th
\* intersection with four valid arms, carries the strokesAtCluster of the cluster that
\* holds that intersection (stated of the list as the candidate loop leaves it)
StrokesAtClusterCounted ==
    /\ \A c \in 1..Len(clusters) :
          clusters[c].strokesAtCluster
              = Cardinality(strokesOver({i + 1 : i \in indexSet(clusters[c])}))
    /\ pc = "candidates" =>
          /\ Len(crossCandidates) = Len(validPositions)
          /\ \A k \in 1..Len(crossCandidates) :
                \E c \in 1..Len(clusters) :
                    /\ (validPositions[k] - 1) \in indexSet(clusters[c])
                    /\ crossCandidates[k].strokesAtIntersection
                           = clusters[c].strokesAtCluster

\* a candidate whose own two segments belong to two strokes, stamped with the three
\* strokes of its cluster
CandidateCarriesClusterStrokes ==
    /\ Returned
    /\ \E k \in 1..Len(crossCandidates) :
          /\ crossCandidates[k].strokesAtIntersection = 3
          /\ Cardinality(strokesOver({validPositions[k]})) = 2

\* C22: the best candidate has the largest minExtension of all cross candidates, and
\* is the first candidate of the list that has it
BestIsFirstMaximum ==
    bestCandidate # Null =>
        \E k \in 1..Len(crossCandidates) :
            /\ bestCandidate = crossCandidates[k]
            /\ \A j \in 1..Len(crossCandidates) :
                  crossCandidates[j].minExtension <= crossCandidates[k].minExtension
            /\ \A j \in 1..(k - 1) :
                  crossCandidates[j].minExtension < crossCandidates[k].minExtension

\* two different candidates share the largest minExtension and the earlier one is chosen
BestAmongTied ==
    /\ Returned
    /\ bestCandidate # Null
    /\ \E j \in 2..Len(crossCandidates) :
          /\ crossCandidates[j].minExtension = bestCandidate.minExtension
          /\ crossCandidates[j] # bestCandidate
          /\ \E k \in 1..(j - 1) : crossCandidates[k] = bestCandidate

\* is n / det a number in [0, 1]
inUnitInterval(n, det) == IF det > 0 THEN 0 <= n /\ n <= det ELSE det <= n /\ n <= 0

\* C23: every intersection of the list comes from two segments of different strokes or
\* of one stroke more than one index apart, cuts both segments within their ends, lies
\* in the vote box without tolerance, is at least ENDPOINT_EPS_PX from the first and
\* the last point of both strokes, and has an acute angle of at least
\* MIN_CROSSING_ANGLE_DEG
IntersectionsPassFilters ==
    \A k \in 1..Len(intersections) :
        LET inter == intersections[k]
            s1  == inter.seg1
            s2  == inter.seg2
            dx1 == s1.p2.x - s1.p1.x
            dy1 == s1.p2.y - s1.p1.y
            dx2 == s2.p2.x - s2.p1.x
            dy2 == s2.p2.y - s2.p1.y
            det == dx1 * dy2 - dy1 * dx2
            stroke1 == processedStrokes[s1.strokeIndex + 1]
            stroke2 == processedStrokes[s2.strokeIndex + 1]
            ends == {stroke1[1], stroke1[Len(stroke1)], stroke2[1], stroke2[Len(stroke2)]}
        IN  /\ \/ s1.strokeIndex # s2.strokeIndex
               \/ s1.segmentIndex - s2.segmentIndex > 1
               \/ s2.segmentIndex - s1.segmentIndex > 1
            /\ det # 0
            /\ inUnitInterval((s2.p1.x - s1.p1.x) * dy2 - (s2.p1.y - s1.p1.y) * dx2, det)
            /\ inUnitInterval((s2.p1.x - s1.p1.x) * dy1 - (s2.p1.y - s1.p1.y) * dx1, det)
            /\ VOTE_BOX.x <= inter.x /\ inter.x <= VOTE_BOX.x + VOTE_BOX.width
            /\ VOTE_BOX.y <= inter.y /\ inter.y <= VOTE_BOX.y + VOTE_BOX.height
            /\ \A e \in ends : dist(Pt(inter.x, inter.y), e) >= ENDPOINT_EPS_PX
            /\ acuteAngle(s1, s2) >= MIN_CROSSING_ANGLE_DEG
            /\ inter.angle >= MIN_CROSSING_ANGLE_DEG

\* a stroke that crosses itself: an intersection of two segments of one stroke
SelfCrossingFound ==
    /\ Returned
    /\ \E k \in 1..Len(intersections) :
          intersections[k].seg1.strokeIndex = intersections[k].seg2.strokeIndex

----------------------------------------------------------------------------
(* The drawing page (src/js/input-handler.js, src/js/app.js): pointer events,
   the clear button and the debounce timer.  Each handler runs to completion;
   the browser delivers the events in any order. *)

MaxDrawn == 2          \* strokes on the canvas
MaxStrokePoints == 2   \* points of the stroke being drawn
MaxTimers == 3         \* calls of setTimeout

PointerIds == {1, 2}

\* the variables of a call of the validator, which the page's handlers leave alone
validator == <<strokes, options, pc, result, lastResult, args, ret, locals>>

\* getCanvasPoint: the pointer moves along one line, its k-th event of a stroke is at
getCanvasPoint(k) == Pt(200 + 25 * k, 150 + 15 * k)

\* result.debug of validateMark(list, {debug: true}): an object for every list, kept
\* as the list it was computed from
debugOf(list) == [of |-> list]

InputInit ==
    /\ pc = "page"
    /\ args = Null
    /\ ret = Null
    /\ NoMarkCall

\* a timer set without cancelling the one on record
scheduleWithoutClear(state, timers) ==
    [ballotState |-> [state EXCEPT !.evaluationTimer = browser.nextTimerId],
     timers |-> timers \cup {browser.nextTimerId}]

\* setTimeout(callback, EVALUATION_DEBOUNCE_MS) after clearTimeout of the timer on record
scheduleEvaluation(state, timers) ==
    [ballotState |-> [state EXCEPT !.evaluationTimer = browser.nextTimerId],
     timers |-> (IF state.evaluationTimer # NoId THEN timers \ {state.evaluationTimer}
                 ELSE timers) \cup {browser.nextTimerId}]

handlePointerDown(pointerId) ==
    /\ ballotState.activePointerId = NoId
    /\ ballotState' = [ballotState EXCEPT !.activePointerId = pointerId,
                                          !.currentStroke = <<getCanvasPoint(0)>>]
    /\ UNCHANGED <<browser, runner, validator>>

\* currentStroke.push(pt) throws a TypeError when currentStroke is null
handlePointerMove(pointerId) ==
    /\ pointerId = ballotState.activePointerId
    /\ IF ballotState.currentStroke = NoStroke
       THEN /\ browser' = [browser EXCEPT !.uncaught = "TypeError"]
            /\ UNCHANGED ballotState
       ELSE /\ Len(ballotState.currentStroke) < MaxStrokePoints
            /\ ballotState' =
                   [ballotState EXCEPT !.currentStroke =
                       Append(@, getCanvasPoint(Len(ballotState.currentStroke)))]
            /\ UNCHANGED browser
    /\ UNCHANGED <<runner, validator>>

handlePointerUp(pointerId) ==
    /\ pointerId = ballotState.activePointerId
    /\ IF ballotState.currentStroke # NoStroke /\ Len(ballotState.currentStroke) >= 2
       THEN /\ Len(ballotState.strokes) < MaxDrawn
            /\ browser.nextTimerId <= MaxTimers
            /\ LET pushed == [ballotState EXCEPT
                                 !.activePointerId = NoId,
                                 !.strokes = Append(@, ballotState.currentStroke),
                                 !.currentStroke = NoStroke]
                   scheduled == scheduleEvaluation(pushed, browser.timers)
               IN  /\ ballotState' = scheduled.ballotState
                   /\ browser' = [browser EXCEPT !.timers = scheduled.timers,
                                                 !.nextTimerId = @ + 1]
       ELSE /\ ballotState' = [ballotState EXCEPT !.activePointerId = NoId,
                                                  !.currentStroke = NoStroke]
            /\ UNCHANGED browser
    /\ UNCHANGED <<runner, validator>>

handlePointerCancel(pointerId) ==
    /\ pointerId = ballotState.activePointerId
    /\ ballotState' = [ballotState EXCEPT !.activePointerId = NoId, !.currentStroke = NoStroke]
    /\ UNCHANGED <<browser, runner, validator>>

\* the callback of a pending timer (input-handler.js:128-151)
evaluate(timerId) ==
    /\ timerId \in browser.timers
    /\ browser' = [browser EXCEPT
                      !.timers = @ \ {timerId},
                      !.validateMarkCalls = Append(@, ballotState.strokes)]
    /\ ballotState' = [ballotState EXCEPT !.debugData = debugOf(ballotState.strokes)]
    /\ UNCHANGED <<runner, validator>>

clear ==
    /\ ballotState' = [ballotState EXCEPT !.strokes = <<>>, !.currentStroke = NoStroke,
                                          !.debugData = Null]
    /\ UNCHANGED <<browser, runner, validator>>

PointerDown == \E id \in PointerIds : handlePointerDown(id)
PointerMove == \E id \in PointerIds : handlePointerMove(id)
PointerUp == \E id \in PointerIds : handlePointerUp(id)
PointerCancel == \E id \in PointerIds : handlePointerCancel(id)
TimerFires == \E id \in 1..MaxTimers : evaluate(id)

InputNext ==
    \/ PointerDown
    \/ PointerMove
    \/ PointerUp
    \/ PointerCancel
    \/ TimerFires
    \/ clear

InputSpec == InputInit /\ [][InputNext]_vars

\* C26: while a pointer is active there is a stroke being drawn, so that a move of
\* the active pointer always has a list to push its point to
ActivePointerHasStroke ==
    ballotState.activePointerId # NoId => ballotState.currentStroke # NoStroke

\* a move of the active pointer found no stroke to push to
MoveThrewTypeError == browser.uncaught = "TypeError"

\* C28: at most one evaluation timer is pending.  A step that adds a stroke cancels
\* the pending timer and sets a new one; a step that releases the pointer without
\* adding a stroke (pointerup with fewer than two points, pointercancel) leaves the
\* strokes and the timer alone; a timer that fires makes one call of validateMark, on
\* the stroke list as it is then, and leaves no timer pending.  So the strokes completed
\* while a timer is pending cause one call.
DebounceOneEvaluation ==
    [][LET grew == Len(ballotState'.strokes) > Len(ballotState.strokes)
           released == ballotState.activePointerId # NoId
                       /\ ballotState'.activePointerId = NoId
           called == browser'.validateMarkCalls # browser.validateMarkCalls
       IN  /\ Cardinality(browser'.timers) <= 1
           /\ grew =>
                 /\ ballotState'.strokes =
                        Append(ballotState.strokes, ballotState.currentStroke)
                 /\ Len(ballotState.currentStroke) >= 2
                 /\ browser'.timers = {ballotState'.evaluationTimer}
                 /\ ballotState'.evaluationTimer \notin
                        browser.timers \cup {ballotState.evaluationTimer, NoId}
                 /\ ~called
           /\ (released /\ ~grew) =>
                 /\ ballotState'.strokes = ballotState.strokes
                 /\ browser'.timers = browser.timers
                 /\ ballotState'.evaluationTimer = ballotState.evaluationTimer
                 /\ ~called
           /\ called =>
                 /\ browser'.validateMarkCalls =
                        Append(browser.validateMarkCalls, ballotState.strokes)
                 /\ ballotState'.strokes = ballotState.strokes
                 /\ browser.timers # {}
                 /\ browser'.timers = {}
      ]_vars

\* two strokes were completed before the timer fired, and the one call made so far
\* was on the list of both
TwoStrokesOneEvaluation ==
    /\ Len(browser.validateMarkCalls) = 1
    /\ Len(browser.validateMarkCalls[1]) = 2
    /\ ballotState.evaluationTimer = 2
    /\ browser.timers = {}

----------------------------------------------------------------------------
(* The test runner page (src/unnamed/part_000): the file input, the Run All and
   Stop buttons, and the runAll calls in progress.  A runAll call runs from one
   await to the next without interruption; between two of its steps the page
   handles any other event. *)

MaxTests == 2   \* tests of a loaded file
MaxRuns == 2    \* runAll calls in progress at the same time

\* the tests of a file: the n tests whose ids follow base
testFile(base, n) == [k \in 1..n |-> [id |-> base + k]]

TestFiles == {testFile(base, n) : base \in {0, 10}, n \in 0..MaxTests}

\* the result depends on the test case alone (validateMark reads its strokes only)
runTest(testCase) == [testId |-> testCase.id, testCase |-> testCase]

\* the sequence without its k-th element
without(seq, k) == SubSeq(seq, 1, k - 1) \o SubSeq(seq, k + 1, Len(seq))

RunnerInit ==
    /\ pc = "tests"
    /\ args = Null
    /\ ret = Null
    /\ NoMarkCall

\* the end of runAll, lines 87-94: running is left as it is
finished(r) == [r EXCEPT !.stopBtnShown = FALSE, !.runAllBtnDisabled = FALSE]

\* one turn of the loop of runAll at index i (0-based), from the test of the index
\* to the await, for the call at position k of loops (a new call when k is past the end)
iteration(r, k, i) ==
    IF i < Len(r.tests) /\ r.running
    THEN [r EXCEPT !.results = Append(@, runTest(r.tests[i + 1])),
                   !.loops = IF k > Len(r.loops) THEN Append(@, i) ELSE [@ EXCEPT ![k] = i]]
    ELSE finished([r EXCEPT !.loops = IF k > Len(r.loops) THEN @ ELSE without(@, k)])

\* the file input's change handler with a well-formed file, lines 443-457 and 22-36
loadTests(jsonData) ==
    /\ jsonData.version = "1.0"
    /\ runner' = [runner EXCEPT !.tests = jsonData.tests, !.results = <<>>,
                                !.runAllBtnDisabled = FALSE]
    /\ UNCHANGED <<ballotState, browser, validator>>

\* a click on Run All: runAll(100) up to its first await; a call that finds running
\* set returns at once
runAll ==
    /\ ~runner.runAllBtnDisabled
    /\ ~runner.running
    /\ Len(runner.loops) < MaxRuns
    /\ runner' = iteration([runner EXCEPT !.running = TRUE, !.results = <<>>,
                                          !.stopBtnShown = TRUE,
                                          !.runAllBtnDisabled = TRUE],
                           Len(runner.loops) + 1, 0)
    /\ UNCHANGED <<ballotState, browser, validator>>

\* the delay of a suspended runAll call is over: i++ and the next turn of its loop
resume(k) ==
    /\ k \in 1..Len(runner.loops)
    /\ runner' = iteration(runner, k, runner.loops[k] + 1)
    /\ UNCHANGED <<ballotState, browser, validator>>

\* a click on Stop
stop ==
    /\ runner.stopBtnShown
    /\ runner' = [runner EXCEPT !.running = FALSE]
    /\ UNCHANGED <<ballotState, browser, validator>>

LoadTests == \E file \in TestFiles : loadTests([version |-> "1.0", tests |-> file])
Resume == \E k \in 1..MaxRuns : resume(k)

RunnerNext ==
    \/ LoadTests
    \/ runAll
    \/ Resume
    \/ stop

RunnerSpec == RunnerInit /\ [][RunnerNext]_vars

\* C27: when no runAll call is in progress the runner is not running, so that the next
\* runAll call passes its guard and executes the tests
NotRunningAfterRunAll == runner.loops = <<>> => ~runner.running

\* a run of two tests has completed, every test has its result, and the flag is
\* still set: the next click on Run All returns at the guard
CompletedRunStillRunning ==
    /\ runner.loops = <<>>
    /\ runner.running
    /\ Len(runner.results) = 2
    /\ ~runner.runAllBtnDisabled

\* C29: the k-th result is the result of the k-th test, and there are no more results
\* than tests, in every state of a run, whatever is loaded or stopped during it
ResultsAlignedWithTests ==
    /\ Len(runner.results) <= Len(runner.tests)
    /\ \A k \in 1..Len(runner.results) :
          k <= Len(runner.tests) => runner.results[k] = runTest(runner.tests[k])

\* a file was loaded at the await of a run in progress, and the run went on: its
\* first result is the result of the second test of the new file
ResultOfLaterTestFirst ==
    /\ Len(runner.tests) = 2
    /\ Len(runner.loops) = 1
    /\ runner.results = <<runTest(runner.tests[2])>>

\* C30: the clusters of a call partition its intersections: every position of the
\* list is in the indices of exactly one cluster, whose point at that place is the
\* intersection itself; no cluster is empty and count is the number of its points.
\* So every intersection is found in a cluster, and once the candidates are built
\* there is a candidate exactly when a cluster is cross-valid.
ClustersPartitionIntersections ==
    pc \in {"clustered", "candidates", "topology", "scored"} =>
        /\ \A c \in 1..Len(clusters) :
              /\ clusters[c].count >= 1
              /\ clusters[c].count = Len(clusters[c].points)
              /\ clusters[c].count = Len(clusters[c].indices)
              /\ clusters[c].count = Cardinality(indexSet(clusters[c]))
              /\ \A k \in 1..Len(clusters[c].indices) :
                    /\ clusters[c].indices[k] \in 0..(Len(intersections) - 1)
                    /\ clusters[c].points[k] = intersections[clusters[c].indices[k] + 1]
        /\ \A i \in 0..(Len(intersections) - 1) :
              Cardinality({c \in 1..Len(clusters) : i \in indexSet(clusters[c])}) = 1
        /\ \A i \in 1..Len(intersections) :
              \E c \in 1..Len(clusters) : \E k \in 1..Len(clusters[c].points) :
                  clusters[c].points[k] = intersections[i]
        /\ pc # "clustered" =>
              (Len(crossCandidates) # 0 <=>
                  \E c \in 1..Len(clusters) : clusters[c].isCrossValid)

\* candidates were built from several clusters, one of them of several intersections
\* and one of them not cross-valid
CandidatesOfSeveralClusters ==
    /\ pc = "candidates"
    /\ Len(crossCandidates) # 0
    /\ \E c \in 1..Len(clusters) : clusters[c].count >= 2
    /\ \E c \in 1..Len(clusters) : ~clusters[c].isCrossValid

====
